---- MODULE Spec2Model ----
(***************************************************************************)
(* The task-hierarchy engine of edwh_odoo_plugin: TaskManager's reparent   *)
(* operations (move_subtask, promote_task, move_multiple_subtasks) against *)
(* the remote project.task table, its hierarchy builder (show_hierarchy,   *)
(* show_project_hierarchy) and the JSON presenter of the web handlers      *)
(* (convert_hierarchy_for_web).                                            *)
(*                                                                         *)
(* The remote table is the variable store.  Every remote call a handler    *)
(* issues (search_records, write) is appended to the handler's RPC log, so *)
(* the order of reads and writes of one call is part of its result.  An    *)
(* environment env says which RPCs of a call raise (env.raise, the indices *)
(* into the log) and which writes answer False (env.refuse).               *)
(***************************************************************************)
EXTENDS Integers, Sequences, FiniteSets, TLC

\* ---------------------------------------------------------------- bounds
\* Tasks in the remote table: ids 1..NumTasks.
NumTasks == 3
\* Longest id list handed to move_multiple_subtasks.
MaxIds == 2
\* Most remote calls of one handler invocation that fail.
MaxFaults == 1
\* Largest max_depth handed to show_hierarchy and show_project_hierarchy
\* (their default is 3).
MaxDepth == 3

\* ------------------------------------------------------------ values
\* Python's None (target_project_id=None); False is 0, as in Python.
None == -1

\* Python truthiness of an id-valued expression: None, False and 0 are falsy.
Truthy(v) == v # None /\ v # 0

Tasks == 1..NumTasks
\* Ids a caller may pass: the existing tasks and one id that does not resolve.
IdArgs == 1..(NumTasks + 1)
\* The project table holds project 1; 2 does not resolve.
Projects == {1}
ProjArgs == {None, 0, 1, 2}

\* ------------------------------------------------------------ remote store
\* store.parent[t]: parent_id of task t (0: False, no parent);
\* store.project[t]: project_id of task t (0: False, no project).
TaskIds(st) == DOMAIN st.parent

NoVals == [parent_id |-> None, project_id |-> None]

\* One remote call, as logged: kind is "search_task", "search_project" or "write".
Rpc(kind, id, vals) == [kind |-> kind, id |-> id, vals |-> vals]

NoFaults == [raise |-> {}, refuse |-> {}]

\* self.tasks.search_records([('id', '=', id)]): the call is logged; it raises
\* when the environment says so, else it finds the record or nothing.
SearchTask(st, env, lg, id) ==
    LET lg1 == Append(lg, Rpc("search_task", id, NoVals))
    IN  [lg |-> lg1, raised |-> Len(lg1) \in env.raise, found |-> id \in TaskIds(st)]

\* self.projects.search_records([('id', '=', id)])
SearchProject(st, env, lg, id) ==
    LET lg1 == Append(lg, Rpc("search_project", id, NoVals))
    IN  [lg |-> lg1, raised |-> Len(lg1) \in env.raise, found |-> id \in Projects]

\* ApplyWrite with a write that resets every field it does not name.
ApplyWrite_ResetsUnnamed(st, id, vals) ==
    IF id \notin TaskIds(st) THEN st
    ELSE [st EXCEPT !.parent[id] = vals.parent_id,
                    !.project[id] = IF vals.project_id = None THEN 0 ELSE vals.project_id]

\* The remote effect of write([id], vals): the fields named in vals are set
\* (project_id is in vals only when it is not None).
ApplyWrite(st, id, vals) ==
    IF id \notin TaskIds(st) THEN st
    ELSE [st EXCEPT !.parent[id] = vals.parent_id,
                    !.project[id] = IF vals.project_id = None THEN @ ELSE vals.project_id]

\* self.tasks.write([id], vals): raises, answers False (nothing written) or
\* writes and answers True.
Write(st, env, lg, id, vals) ==
    LET lg1 == Append(lg, Rpc("write", id, vals))
        raised == Len(lg1) \in env.raise
        ok == ~raised /\ Len(lg1) \notin env.refuse
    IN  [lg |-> lg1, raised |-> raised, ok |-> ok,
         store |-> IF ok THEN ApplyWrite(st, id, vals) ELSE st]

\* ------------------------------------------------------------ acyclicity check
\* IsDescendantLoop that looks at the parent of current_id only.
IsDescendantLoop_OneLevel(st, env, lg, ancestor_id, current_id, visited) ==
    IF ~(Truthy(current_id) /\ current_id \notin visited)
    THEN [r |-> FALSE, lg |-> lg]
    ELSE LET q == SearchTask(st, env, lg, current_id)
         IN  [r |-> ~q.raised /\ q.found /\ st.parent[current_id] = ancestor_id,
              lg |-> q.lg]

\* The while loop of _is_descendant from current_id on.  Any exception inside
\* it is caught by the function's own except clause, which returns False.
RECURSIVE IsDescendantLoop(_, _, _, _, _, _)
IsDescendantLoop(st, env, lg, ancestor_id, current_id, visited) ==
    IF ~(Truthy(current_id) /\ current_id \notin visited)
    THEN [r |-> FALSE, lg |-> lg]
    ELSE LET q == SearchTask(st, env, lg, current_id)
         IN  IF q.raised THEN [r |-> FALSE, lg |-> q.lg]
             ELSE IF ~q.found THEN [r |-> FALSE, lg |-> q.lg]
             ELSE LET parent_id == st.parent[current_id]
                  IN  IF Truthy(parent_id)
                      THEN IF parent_id = ancestor_id
                           THEN [r |-> TRUE, lg |-> q.lg]
                           ELSE IsDescendantLoop(st, env, q.lg, ancestor_id, parent_id,
                                                 visited \cup {current_id})
                      ELSE [r |-> FALSE, lg |-> q.lg]

\* _is_descendant that walks from the ancestor instead of from the descendant.
_is_descendant_Swapped(st, env, lg, ancestor_id, potential_descendant_id) ==
    IsDescendantLoop(st, env, lg, potential_descendant_id, ancestor_id, {})

_is_descendant(st, env, lg, ancestor_id, potential_descendant_id) ==
    IsDescendantLoop(st, env, lg, ancestor_id, potential_descendant_id, {})

\* _would_create_circular_dependency without the subtask_id == new_parent_id test.
_would_create_circular_dependency_NoSelfTest(st, env, lg, subtask_id, new_parent_id) ==
    _is_descendant(st, env, lg, subtask_id, new_parent_id)

\* _would_create_circular_dependency that tests subtask_id == new_parent_id only.
_would_create_circular_dependency_SelfOnly(st, env, lg, subtask_id, new_parent_id) ==
    [r |-> subtask_id = new_parent_id, lg |-> lg]

_would_create_circular_dependency(st, env, lg, subtask_id, new_parent_id) ==
    IF subtask_id = new_parent_id
    THEN [r |-> TRUE, lg |-> lg]
    ELSE _is_descendant(st, env, lg, subtask_id, new_parent_id)

\* ------------------------------------------------------------ results
\* What a handler returns, with the store it leaves and the RPCs it issued.
\* counts says whether moved_count / failed_count / errors are in the result.
Result(success, error, st, lg) ==
    [success |-> success, error |-> error, store |-> st, lg |-> lg,
     counts |-> FALSE, moved_count |-> 0, failed_count |-> 0, errors |-> <<>>]

Failure(error, st, lg) == Result(FALSE, error, st, lg)

\* ------------------------------------------------------------ move_subtask
move_subtask(st, env, subtask_id, new_parent_id, target_project_id) ==
    LET q1 == SearchTask(st, env, <<>>, subtask_id)
    IN
    IF q1.raised THEN Failure("exception", st, q1.lg)
    ELSE IF ~q1.found THEN Failure("subtask_not_found", st, q1.lg)
    ELSE
    LET q2 == SearchTask(st, env, q1.lg, new_parent_id)
    IN
    IF q2.raised THEN Failure("exception", st, q2.lg)
    ELSE IF ~q2.found THEN Failure("parent_not_found", st, q2.lg)
    ELSE
    LET q3 == IF Truthy(target_project_id)
              THEN SearchProject(st, env, q2.lg, target_project_id)
              ELSE [lg |-> q2.lg, raised |-> FALSE, found |-> TRUE]
    IN
    IF q3.raised THEN Failure("exception", st, q3.lg)
    ELSE IF ~q3.found THEN Failure("project_not_found", st, q3.lg)
    ELSE
    LET c == _would_create_circular_dependency(st, env, q3.lg, subtask_id, new_parent_id)
    IN
    IF c.r THEN Failure("circular", st, c.lg)
    ELSE
    LET vals == [parent_id |-> new_parent_id, project_id |-> target_project_id]
        w == Write(st, env, c.lg, subtask_id, vals)
    IN
    IF w.raised THEN Failure("exception", st, w.lg)
    ELSE IF w.ok THEN Result(TRUE, "", w.store, w.lg)
    ELSE Failure("write_failed", st, w.lg)

\* promote_task without the test that the task has a parent.
promote_task_NoParentTest(st, env, task_id) ==
    LET q1 == SearchTask(st, env, <<>>, task_id)
    IN
    IF q1.raised THEN Failure("exception", st, q1.lg)
    ELSE IF ~q1.found THEN Failure("task_not_found", st, q1.lg)
    ELSE
    LET w == Write(st, env, q1.lg, task_id, [parent_id |-> 0, project_id |-> None])
    IN
    IF w.raised THEN Failure("exception", st, w.lg)
    ELSE IF w.ok THEN Result(TRUE, "", w.store, w.lg)
    ELSE Failure("write_failed", st, w.lg)

\* ------------------------------------------------------------ promote_task
promote_task(st, env, task_id) ==
    LET q1 == SearchTask(st, env, <<>>, task_id)
    IN
    IF q1.raised THEN Failure("exception", st, q1.lg)
    ELSE IF ~q1.found THEN Failure("task_not_found", st, q1.lg)
    ELSE IF ~Truthy(st.parent[task_id]) THEN Failure("already_main", st, q1.lg)
    ELSE
    LET w == Write(st, env, q1.lg, task_id, [parent_id |-> 0, project_id |-> None])
    IN
    IF w.raised THEN Failure("exception", st, w.lg)
    ELSE IF w.ok THEN Result(TRUE, "", w.store, w.lg)
    ELSE Failure("write_failed", st, w.lg)

\* ------------------------------------------------------------ move_multiple_subtasks
\* One per-item error message: f'Task {subtask_id}: <cause>'.
ErrorMsg(id, cause) == [id |-> id, cause |-> cause]

\* MoveOne without the lookup of the subtask.
MoveOne_NoLookup(acc, env, subtask_id, new_parent_id, target_project_id) ==
    LET c == _would_create_circular_dependency(acc.store, env, acc.lg,
                                               subtask_id, new_parent_id)
        failed(lg, cause) ==
            [acc EXCEPT !.lg = lg, !.failed_count = @ + 1,
                        !.errors = Append(@, ErrorMsg(subtask_id, cause))]
    IN
    IF c.r THEN failed(c.lg, "circular")
    ELSE
    LET vals == [parent_id |-> new_parent_id, project_id |-> target_project_id]
        w == Write(acc.store, env, c.lg, subtask_id, vals)
    IN
    IF w.raised THEN failed(w.lg, "exception")
    ELSE IF w.ok THEN [acc EXCEPT !.lg = w.lg, !.store = w.store, !.moved_count = @ + 1]
    ELSE failed(w.lg, "write_failed")

\* One iteration of the for loop over subtask_ids; acc holds the store, the
\* log, the counters and the error list so far.
MoveOne(acc, env, subtask_id, new_parent_id, target_project_id) ==
    LET c == _would_create_circular_dependency(acc.store, env, acc.lg,
                                               subtask_id, new_parent_id)
        failed(lg, cause) ==
            [acc EXCEPT !.lg = lg, !.failed_count = @ + 1,
                        !.errors = Append(@, ErrorMsg(subtask_id, cause))]
    IN
    IF c.r THEN failed(c.lg, "circular")
    ELSE
    LET q == SearchTask(acc.store, env, c.lg, subtask_id)
    IN
    IF q.raised THEN failed(q.lg, "exception")
    ELSE IF ~q.found THEN failed(q.lg, "not_found")
    ELSE
    LET vals == [parent_id |-> new_parent_id, project_id |-> target_project_id]
        w == Write(acc.store, env, q.lg, subtask_id, vals)
    IN
    IF w.raised THEN failed(w.lg, "exception")
    ELSE IF w.ok THEN [acc EXCEPT !.lg = w.lg, !.store = w.store, !.moved_count = @ + 1]
    ELSE failed(w.lg, "write_failed")

\* MoveLoop that leaves the loop at the first entry that fails.
RECURSIVE MoveLoop_StopsAtFailure(_, _, _, _, _)
MoveLoop_StopsAtFailure(acc, env, subtask_ids, new_parent_id, target_project_id) ==
    IF subtask_ids = <<>> THEN acc
    ELSE LET a == MoveOne(acc, env, Head(subtask_ids), new_parent_id, target_project_id)
         IN  IF a.failed_count > acc.failed_count THEN a
             ELSE MoveLoop_StopsAtFailure(a, env, Tail(subtask_ids), new_parent_id,
                                          target_project_id)

\* The for loop over subtask_ids.
RECURSIVE MoveLoop(_, _, _, _, _)
MoveLoop(acc, env, subtask_ids, new_parent_id, target_project_id) ==
    IF subtask_ids = <<>> THEN acc
    ELSE MoveLoop(MoveOne(acc, env, Head(subtask_ids), new_parent_id, target_project_id),
                  env, Tail(subtask_ids), new_parent_id, target_project_id)

move_multiple_subtasks(st, env, subtask_ids, new_parent_id, target_project_id) ==
    LET q1 == SearchTask(st, env, <<>>, new_parent_id)
    IN
    IF q1.raised THEN Failure("exception", st, q1.lg)
    ELSE IF ~q1.found THEN Failure("parent_not_found", st, q1.lg)
    ELSE
    LET q2 == IF Truthy(target_project_id)
              THEN SearchProject(st, env, q1.lg, target_project_id)
              ELSE [lg |-> q1.lg, raised |-> FALSE, found |-> TRUE]
    IN
    IF q2.raised THEN Failure("exception", st, q2.lg)
    ELSE IF ~q2.found THEN Failure("project_not_found", st, q2.lg)
    ELSE
    LET acc == MoveLoop([store |-> st, lg |-> q2.lg, moved_count |-> 0,
                         failed_count |-> 0, errors |-> <<>>],
                        env, subtask_ids, new_parent_id, target_project_id)
    IN  [success |-> acc.moved_count > 0, error |-> "", store |-> acc.store,
         lg |-> acc.lg, counts |-> TRUE, moved_count |-> acc.moved_count,
         failed_count |-> acc.failed_count, errors |-> acc.errors]

\* ------------------------------------------------------------ state
Callers == {"a", "b"}

VARIABLES
    store,    \* the remote project.task table
    last,     \* the call that just ended: its arguments, the store before it, its result
    callers,  \* per concurrent caller of move_subtask: where it is in the handler
    run       \* the operation followed loop round by loop round, and where it is

vars == <<store, last, callers, run>>

\* The tasks that following parent_id from t one to k times reaches.
RECURSIVE AncestorsWithin(_, _, _)
AncestorsWithin(st, t, k) ==
    IF k = 0 \/ t \notin TaskIds(st) THEN {}
    ELSE IF st.parent[t] = 0 THEN {}
    ELSE {st.parent[t]} \cup AncestorsWithin(st, st.parent[t], k - 1)

\* Proper ancestors of t: what following parent_id one or more times reaches.
Ancestors(st, t) == AncestorsWithin(st, t, Cardinality(TaskIds(st)))

\* Following parent_id from t at most k times reaches a task with no parent.
RECURSIVE ReachesRoot(_, _, _)
ReachesRoot(st, t, k) ==
    /\ t \in TaskIds(st)
    /\ \/ st.parent[t] = 0
       \/ k > 0 /\ ReachesRoot(st, st.parent[t], k - 1)

\* The parent relation is a forest: from every task, following parent_id at
\* most (number of tasks) times reaches a task with no parent.
IsForest(st) ==
    \A t \in TaskIds(st) : ReachesRoot(st, t, Cardinality(TaskIds(st)))

ForestStores ==
    {st \in [parent : [Tasks -> {0} \cup Tasks], project : [Tasks -> {0} \cup Projects]] :
        IsForest(st)}

IdLists == UNION {[1..n -> IdArgs] : n \in 0..MaxIds}

NoStore == [parent |-> <<>>, project |-> <<>>]

NoCall ==
    [op |-> "none", task |-> None, parent |-> None, proj |-> None, ids |-> <<>>,
     env |-> NoFaults, pre |-> NoStore, res |-> Result(FALSE, "", NoStore, <<>>)]

Idle ==
    [pc |-> "idle", subtask_id |-> None, new_parent_id |-> None,
     target_project_id |-> None, current_id |-> None, visited |-> {}, result |-> ""]

\* No operation is being followed.
NoRun ==
    [op |-> "none", pc |-> "idle", subtask_id |-> None, new_parent_id |-> None,
     ids |-> <<>>, max_depth |-> 0, current_id |-> None, visited |-> {}, circular |-> FALSE,
     stack |-> <<>>]

Init ==
    /\ store \in ForestStores
    /\ last = NoCall
    /\ callers = [c \in Callers |-> Idle]
    /\ run = NoRun

\* The record of a finished call; the store it left is the variable store.
Call(op, task, parent, proj, ids, env, r) ==
    [op |-> op, task |-> task, parent |-> parent, proj |-> proj, ids |-> ids,
     env |-> env, pre |-> store, res |-> [r EXCEPT !.store = NoStore]]

\* A caller runs move_subtask to its end.
Move(env) ==
    /\ last.op = "none"
    /\ \E s \in IdArgs, p \in IdArgs, proj \in ProjArgs :
        \E r \in {move_subtask(store, env, s, p, proj)} :
            /\ store' = r.store
            /\ last' = Call("move", s, p, proj, <<>>, env, r)
    /\ UNCHANGED <<callers, run>>

\* A caller runs promote_task to its end.
Promote(env) ==
    /\ last.op = "none"
    /\ \E t \in IdArgs :
        \E r \in {promote_task(store, env, t)} :
            /\ store' = r.store
            /\ last' = Call("promote", t, None, None, <<>>, env, r)
    /\ UNCHANGED <<callers, run>>

\* A caller runs move_multiple_subtasks to its end.
MoveMany(env) ==
    /\ last.op = "none"
    /\ \E ids \in IdLists, p \in IdArgs, proj \in ProjArgs :
        \E r \in {move_multiple_subtasks(store, env, ids, p, proj)} :
            /\ store' = r.store
            /\ last' = Call("move_many", None, p, proj, ids, env, r)
    /\ UNCHANGED <<callers, run>>

\* The caller has read the result; the next call may start.
Return ==
    /\ last.op # "none"
    /\ last' = NoCall
    /\ UNCHANGED <<store, callers, run>>

\* Calls made one at a time against a remote table whose calls all succeed.
Next ==
    \/ Move(NoFaults)
    \/ Promote(NoFaults)
    \/ MoveMany(NoFaults)
    \/ Return

Spec == Init /\ [][Next]_vars

\* ------------------------------------------------------------ remote faults
\* Most remote calls one move_subtask issues: three lookups, one lookup per
\* task on the walk, one write.
MaxRpcs == NumTasks + 4

\* Environments in which at most MaxFaults remote calls of a handler fail.
FaultEnvs ==
    {env \in [raise : SUBSET (1..MaxRpcs), refuse : SUBSET (1..MaxRpcs)] :
        Cardinality(env.raise) + Cardinality(env.refuse) <= MaxFaults}

\* Calls made one at a time against a remote table whose calls may fail.
NextFault ==
    \/ \E env \in FaultEnvs : Move(env)
    \/ \E env \in FaultEnvs : Promote(env)
    \/ Return

SpecFault == Init /\ [][NextFault]_vars

\* ------------------------------------------------------------ concurrent callers
\* Two callers, each with its own connection, run move_subtask against the
\* same remote table; a step is one remote call with the local code up to the
\* next one.  Nothing spans two remote calls: the table offers no transaction.
Done(c, result) == callers' = [callers EXCEPT ![c].pc = "done", ![c].result = result]

Goto(c, pc) == callers' = [callers EXCEPT ![c].pc = pc]

\* move_subtask is called.
CallMove(c) ==
    /\ callers[c].pc = "idle"
    /\ \E s \in IdArgs, p \in IdArgs, proj \in {None, 1} :
        callers' = [callers EXCEPT ![c] =
            [Idle EXCEPT !.pc = "search_subtask", !.subtask_id = s,
                         !.new_parent_id = p, !.target_project_id = proj]]
    /\ UNCHANGED <<store, last, run>>

\* subtask_records = self.tasks.search_records([('id', '=', subtask_id)])
SearchSubtask(c) ==
    /\ callers[c].pc = "search_subtask"
    /\ IF callers[c].subtask_id \in TaskIds(store)
       THEN Goto(c, "search_parent")
       ELSE Done(c, "subtask_not_found")
    /\ UNCHANGED <<store, last, run>>

\* parent_records = self.tasks.search_records([('id', '=', new_parent_id)])
SearchParent(c) ==
    /\ callers[c].pc = "search_parent"
    /\ IF callers[c].new_parent_id \in TaskIds(store)
       THEN Goto(c, IF Truthy(callers[c].target_project_id)
                    THEN "search_project" ELSE "check")
       ELSE Done(c, "parent_not_found")
    /\ UNCHANGED <<store, last, run>>

\* project_records = self.projects.search_records([('id', '=', target_project_id)])
SearchTargetProject(c) ==
    /\ callers[c].pc = "search_project"
    /\ IF callers[c].target_project_id \in Projects
       THEN Goto(c, "check")
       ELSE Done(c, "project_not_found")
    /\ UNCHANGED <<store, last, run>>

\* _would_create_circular_dependency up to the loop of _is_descendant.
StartCheck(c) ==
    /\ callers[c].pc = "check"
    /\ IF callers[c].subtask_id = callers[c].new_parent_id
       THEN Done(c, "circular")
       ELSE callers' = [callers EXCEPT ![c].pc = "walk",
                                       ![c].current_id = callers[c].new_parent_id,
                                       ![c].visited = {}]
    /\ UNCHANGED <<store, last, run>>

\* One round of the loop of _is_descendant: the loop test, the lookup of
\* current_id and the step to its parent.  When the loop ends with False the
\* caller goes on to the write.
Walk(c) ==
    /\ callers[c].pc = "walk"
    /\ LET cur == callers[c].current_id
       IN  IF ~(Truthy(cur) /\ cur \notin callers[c].visited)
           THEN Goto(c, "write")
           ELSE IF cur \notin TaskIds(store) THEN Goto(c, "write")
           ELSE IF ~Truthy(store.parent[cur]) THEN Goto(c, "write")
           ELSE IF store.parent[cur] = callers[c].subtask_id THEN Done(c, "circular")
           ELSE callers' = [callers EXCEPT ![c].current_id = store.parent[cur],
                                           ![c].visited = @ \cup {cur}]
    /\ UNCHANGED <<store, last, run>>

\* A write that reports success and changes nothing on the remote.
WriteMove_Dropped(c) ==
    /\ callers[c].pc = "write"
    /\ Done(c, "success")
    /\ UNCHANGED <<store, last, run>>

\* success = self.tasks.write([subtask_id], vals)
WriteMove(c) ==
    /\ callers[c].pc = "write"
    /\ store' = ApplyWrite(store, callers[c].subtask_id,
                           [parent_id |-> callers[c].new_parent_id,
                            project_id |-> callers[c].target_project_id])
    /\ Done(c, "success")
    /\ UNCHANGED <<last, run>>

NextConcurrent ==
    \E c \in Callers :
        \/ CallMove(c)
        \/ SearchSubtask(c)
        \/ SearchParent(c)
        \/ SearchTargetProject(c)
        \/ StartCheck(c)
        \/ Walk(c)
        \/ WriteMove(c)

\* The concurrent callers start on a forest of tasks that are in no project.
InitConcurrent == Init /\ \A t \in Tasks : store.project[t] = 0

SpecConcurrent == InitConcurrent /\ [][NextConcurrent]_vars

\* ------------------------------------------------------------ claims' vocabulary
\* The write RPCs of a log.
Writes(lg) == SelectSeq(lg, LAMBDA e : e.kind = "write")

\* The calls move_subtask(id, p, proj) made for each id of ids in list order,
\* each on the store the one before left: the store at the end and, per id,
\* whether its call returned success.
RECURSIVE MovesInOrder(_, _, _, _, _)
MovesInOrder(st, ok, ids, p, proj) ==
    IF ids = <<>> THEN [store |-> st, ok |-> ok]
    ELSE LET r == move_subtask(st, NoFaults, Head(ids), p, proj)
         IN  MovesInOrder(r.store, Append(ok, r.success), Tail(ids), p, proj)

\* The entries of ids whose call did not return success, in list order.
RECURSIVE FailedIds(_, _)
FailedIds(ids, ok) ==
    IF ids = <<>> THEN <<>>
    ELSE (IF Head(ok) THEN <<>> ELSE <<Head(ids)>>) \o FailedIds(Tail(ids), Tail(ok))

\* ------------------------------------------------------------ claims

\* C1: starting from a forest, after any sequence of move, promote and move_many
\* calls made one at a time, the parent relation is still a forest: from every
\* task, following parent_id at most (number of tasks) times reaches a task
\* with no parent.
C1_ForestPreserved == IsForest(store)

\* C1's case: a move succeeded that put a task which had a parent under a task
\* that itself has a parent.
C1_Witness ==
    /\ last.op = "move" /\ last.res.success
    /\ last.pre.parent[last.task] # 0
    /\ Cardinality(Ancestors(store, last.task)) >= 2

\* C2: move(X, N, any project) with N a proper descendant of X (at any depth)
\* fails, and parent_id and project_id of every task are as before the call.
C2_DescendantMoveRejected ==
    (/\ last.op = "move"
     /\ last.parent \in TaskIds(last.pre)
     /\ last.task \in Ancestors(last.pre, last.parent))
    => (~last.res.success /\ store = last.pre)

\* C2's case: A -> B -> C and move(A, C) was called.
C2_Witness ==
    /\ last.op = "move"
    /\ last.parent \in TaskIds(last.pre)
    /\ last.pre.parent[last.parent] \in TaskIds(last.pre) \ {last.task}
    /\ last.pre.parent[last.pre.parent[last.parent]] = last.task
    /\ last.res.error = "circular"

\* C3: move(X, X, project) fails for every id X, existing or not, and every
\* project; it issues no write and the store is unchanged.
C3_SelfMoveRejected ==
    (last.op = "move" /\ last.task = last.parent)
    => (~last.res.success /\ Writes(last.res.lg) = <<>> /\ store = last.pre)

\* C3's case: move(X, X) on an existing task was called and refused as circular.
C3_Witness ==
    /\ last.op = "move" /\ last.task = last.parent
    /\ last.task \in TaskIds(last.pre)
    /\ last.res.error = "circular"

\* The preconditions of move and of promote, stated on the store before the call.
MovePrecondition(st, s, p, proj) ==
    /\ s \in TaskIds(st)
    /\ p \in TaskIds(st)
    /\ proj # None => proj \in Projects
    /\ s # p
    /\ s \notin Ancestors(st, p)

PromotePrecondition(st, t) == t \in TaskIds(st) /\ st.parent[t] # 0

CallPrecondition ==
    IF last.op = "move"
    THEN MovePrecondition(last.pre, last.task, last.parent, last.proj)
    ELSE PromotePrecondition(last.pre, last.task)

\* C4: in a single move or promote call a write is issued only after every
\* precondition check (task exists, new parent exists, target project exists,
\* acyclicity, task has a parent for promote) has passed: the write is the last
\* remote call; and when a precondition fails the call returns an error and has
\* issued no write.
C4_WriteOnlyAfterChecks ==
    last.op \in {"move", "promote"}
    => /\ Writes(last.res.lg) # <<>>
          => /\ CallPrecondition
             /\ Len(Writes(last.res.lg)) = 1
             /\ last.res.lg[Len(last.res.lg)].kind = "write"
       /\ ~CallPrecondition
          => (~last.res.success /\ Writes(last.res.lg) = <<>> /\ store = last.pre)

\* C4 for every call but a move whose target_project_id is 0 or False.
C4_ExceptFalsyProject ==
    (last.op \in {"move", "promote"} /\ ~(last.op = "move" /\ last.proj = 0))
    => C4_WriteOnlyAfterChecks

\* C7: a successful move(X, P, proj) issues exactly one write, which sets
\* X.parent_id = P and, only when proj is given, X.project_id = proj; X's
\* project_id is unchanged when proj is None, and parent_id and project_id of
\* every other task are unchanged.
C7_MoveWritesOneTask ==
    (last.op = "move" /\ last.res.success)
    => /\ Writes(last.res.lg) =
            <<Rpc("write", last.task,
                  [parent_id |-> last.parent, project_id |-> last.proj])>>
       /\ store.parent[last.task] = last.parent
       /\ store.project[last.task] =
            IF last.proj = None THEN last.pre.project[last.task] ELSE last.proj
       /\ \A t \in TaskIds(store) \ {last.task} :
            /\ store.parent[t] = last.pre.parent[t]
            /\ store.project[t] = last.pre.project[t]

\* C7's case: a move with a project succeeded on a task that has a child, and
\* changed the task's parent and project.
C7_Witness ==
    /\ last.op = "move" /\ last.res.success
    /\ last.proj = 1
    /\ last.pre.project[last.task] # 1
    /\ last.pre.parent[last.task] # last.parent
    /\ \E t \in TaskIds(store) : store.parent[t] = last.task

\* C7's other case: a move without a project succeeded on a task in a project.
C7_WitnessNoProject ==
    /\ last.op = "move" /\ last.res.success
    /\ last.proj = None
    /\ store.project[last.task] = 1

\* C8: promote(X) on a task with no parent, or on an id that does not exist,
\* returns an error and issues no write; promote(X) on a task with a parent
\* issues one write that clears X.parent_id and changes nothing else, and a
\* promote(X) made next fails.
C8_PromoteGuard ==
    last.op = "promote"
    => IF PromotePrecondition(last.pre, last.task)
       THEN /\ last.res.success
            /\ Writes(last.res.lg) =
                 <<Rpc("write", last.task, [parent_id |-> 0, project_id |-> None])>>
            /\ store = [last.pre EXCEPT !.parent[last.task] = 0]
            /\ LET again == promote_task(store, NoFaults, last.task)
               IN  ~again.success /\ Writes(again.lg) = <<>> /\ again.store = store
       ELSE ~last.res.success /\ Writes(last.res.lg) = <<>> /\ store = last.pre

\* C8's case: a task with a parent was promoted.
C8_Witness ==
    /\ last.op = "promote" /\ last.res.success
    /\ last.pre.parent[last.task] # 0
    /\ store.parent[last.task] = 0

\* C8's other case: promote was refused on a task that has no parent.
C8_WitnessRefused ==
    /\ last.op = "promote" /\ last.task \in TaskIds(last.pre)
    /\ last.res.error = "already_main"

\* An entry of move_many's list that can move under P: it exists and is neither
\* P nor an ancestor of P (anc: the ancestors of P).
Movable(st, anc, id, p) == id \in TaskIds(st) /\ id # p /\ id \notin anc

\* The message expected for an entry that cannot move.
ExpectedError(anc, id, p) ==
    ErrorMsg(id, IF id = p \/ id \in anc THEN "circular" ELSE "not_found")

\* C9: for move_many(ids, P) with P existing, moved_count is the number of list
\* entries that exist and are neither P nor an ancestor of P, failed_count the
\* number of the other entries, and the error list holds one message per failed
\* entry, in list order, naming its id and its cause.
C9_BatchCounts ==
    (/\ last.op = "move_many"
     /\ last.parent \in TaskIds(last.pre)
     /\ ~(Truthy(last.proj) /\ last.proj \notin Projects))
    => LET ids == last.ids
           anc == Ancestors(last.pre, last.parent)
           bad == SelectSeq(ids, LAMBDA id : ~Movable(last.pre, anc, id, last.parent))
       IN  /\ last.res.counts
           /\ last.res.moved_count =
                Cardinality({i \in 1..Len(ids) :
                                Movable(last.pre, anc, ids[i], last.parent)})
           /\ last.res.moved_count + last.res.failed_count = Len(ids)
           /\ last.res.errors =
                [i \in 1..Len(bad) |-> ExpectedError(anc, bad[i], last.parent)]

\* C9's case: a batch with one entry that moved and one that could not.
C9_Witness ==
    /\ last.op = "move_many"
    /\ last.res.counts
    /\ last.res.moved_count = 1
    /\ last.res.failed_count = 1
    /\ last.res.errors[1].cause = "circular"
    /\ last.res.errors[1].id # last.parent

\* C9's other case: an entry that does not exist.
C9_WitnessNotFound ==
    /\ last.op = "move_many"
    /\ last.res.moved_count = 1
    /\ last.res.failed_count = 1
    /\ last.res.errors[1].cause = "not_found"

\* C10: the store after move_many(ids, P, proj) is the store after calling
\* move(id, P, proj) for each id in list order, and when counts are reported
\* the entries counted as moved are those whose move call returns success (the
\* others are the entries named in the error list).
C10_BatchIsMovesInOrder ==
    last.op = "move_many"
    => LET m == MovesInOrder(last.pre, <<>>, last.ids, last.parent, last.proj)
           failed == FailedIds(last.ids, m.ok)
       IN  /\ store = m.store
           /\ last.res.counts
              => /\ last.res.moved_count = Len(last.ids) - Len(failed)
                 /\ last.res.failed_count = Len(failed)
                 /\ [i \in 1..Len(last.res.errors) |-> last.res.errors[i].id] = failed

\* C10's case: a batch of two entries that both moved, the first a child of
\* the second before the call, with a target project.
C10_Witness ==
    /\ last.op = "move_many"
    /\ Len(last.ids) = 2
    /\ last.res.moved_count = 2
    /\ last.ids[1] # last.ids[2]
    /\ last.pre.parent[last.ids[1]] = last.ids[2]
    /\ last.proj = 1

\* A remote read of the call raised: a search_records call the handler issued.
ReadRaised ==
    \E k \in last.env.raise : k <= Len(last.res.lg) /\ last.res.lg[k].kind # "write"

\* C6: when a remote read that a move performs before its write raises (the
\* lookup of the task, of the new parent, of the target project, or a lookup
\* of the ancestor walk), move returns an error and issues no write.
C6_ReadFailureSurfaces ==
    (last.op = "move" /\ ReadRaised)
    => (~last.res.success /\ Writes(last.res.lg) = <<>>)

\* C6 for the three lookups made before the acyclicity check.
C6_LookupFailureSurfaces ==
    (/\ last.op = "move"
     /\ \E k \in last.env.raise :
            /\ k <= Len(last.res.lg)
            /\ k <= (IF Truthy(last.proj) THEN 3 ELSE 2))
    => (last.res.error = "exception" /\ Writes(last.res.lg) = <<>>)

\* What the ancestor walk's swallowed failure can do: a move that returns
\* success and leaves a cycle.
C6_FaultsKeepForest == IsForest(store)

\* C5's case: the callers ran move(A, B) and move(B, A) on two tasks.
CrossMoves ==
    /\ callers["a"].pc = "done" /\ callers["b"].pc = "done"
    /\ callers["a"].subtask_id = callers["b"].new_parent_id
    /\ callers["a"].new_parent_id = callers["b"].subtask_id
    /\ callers["a"].subtask_id # callers["a"].new_parent_id

\* C5: the acyclicity check and the write of move are not atomic: when two
\* concurrent calls move(A, B) and move(B, A) both return success, which
\* happens when both checks end before either write, the parent relation
\* holds the cycle A -> B -> A.
C5_RaceLeavesCycle ==
    (CrossMoves /\ callers["a"].result = "success" /\ callers["b"].result = "success")
    => /\ store.parent[callers["a"].subtask_id] = callers["a"].new_parent_id
       /\ store.parent[callers["b"].subtask_id] = callers["b"].new_parent_id
       /\ ~IsForest(store)

\* C5's case reached: both cross moves returned success.
C5_Witness ==
    /\ CrossMoves
    /\ callers["a"].result = "success" /\ callers["b"].result = "success"
    /\ ~IsForest(store)

\* Concurrent callers do not keep the forest.
C5_ConcurrentForest == IsForest(store)

\* ------------------------------------------------------------ remote faults in a batch
\* Most remote calls one move_multiple_subtasks issues: the lookups of the
\* parent and of the project, then per entry the lookups of the walk, the
\* lookup of the entry and the write.
MaxBatchRpcs == 2 + MaxIds * (NumTasks + 2)

BatchFaultEnvs ==
    {env \in [raise : SUBSET (1..MaxBatchRpcs), refuse : SUBSET (1..MaxBatchRpcs)] :
        Cardinality(env.raise) + Cardinality(env.refuse) <= MaxFaults}

\* Batches made one at a time against a remote table whose calls may fail.
NextBatchFault ==
    \/ \E env \in BatchFaultEnvs : MoveMany(env)
    \/ Return

SpecBatchFault == InitConcurrent /\ [][NextBatchFault]_vars

\* The iterations of the for loop from acc on, one record per list entry:
\* the entry, the accumulator before and after it, and the indices in the RPC
\* log of the calls it issued (first..walk_to: the lookups of the acyclicity
\* check's walk; walk_to+1..to: the lookup of the entry and the write).
RECURSIVE BatchTrace(_, _, _, _, _)
BatchTrace(acc, env, ids, p, proj) ==
    IF ids = <<>> THEN <<>>
    ELSE LET a == MoveOne(acc, env, Head(ids), p, proj)
             c == _would_create_circular_dependency(acc.store, env, acc.lg, Head(ids), p)
         IN  <<[id |-> Head(ids), before |-> acc, after |-> a,
                first |-> Len(acc.lg) + 1, walk_to |-> Len(c.lg), to |-> Len(a.lg)]>>
             \o BatchTrace(a, env, Tail(ids), p, proj)

\* The iterations of the batch in last.
LastBatchTrace ==
    LET n == IF Truthy(last.proj) THEN 2 ELSE 1
    IN  BatchTrace([store |-> last.pre, lg |-> SubSeq(last.res.lg, 1, n),
                    moved_count |-> 0, failed_count |-> 0, errors |-> <<>>],
                   last.env, last.ids, last.parent, last.proj)

\* The remote calls of iteration it, from index from on, that failed: a call
\* that raised, or a write that answered False.
FailedRpcs(it, from) ==
    {k \in from..it.to :
        \/ k \in last.env.raise
        \/ k \in last.env.refuse /\ last.res.lg[k].kind = "write"}

\* Iteration it counted its entry as failed, with a message of its own that
\* names the entry, and wrote nothing.
CountedFailed(it) ==
    /\ it.after.failed_count = it.before.failed_count + 1
    /\ it.after.moved_count = it.before.moved_count
    /\ Len(it.after.errors) = Len(it.before.errors) + 1
    /\ it.after.errors[Len(it.after.errors)].id = it.id
    /\ it.after.errors[Len(it.after.errors)].cause \in {"exception", "write_failed"}
    /\ it.after.store = it.before.store

\* The batch went through every entry, and the entries it moved are under the
\* new parent at the end.
BatchWentOn(tr) ==
    /\ last.res.moved_count + last.res.failed_count = Len(last.ids)
    /\ \A i \in 1..Len(tr) :
        /\ tr[i].after.moved_count + tr[i].after.failed_count = i
        /\ FailedRpcs(tr[i], tr[i].first) = {}
           => tr[i].after = [MoveOne(tr[i].before, NoFaults, tr[i].id, last.parent, last.proj)
                                EXCEPT !.lg = tr[i].after.lg]
        /\ tr[i].after.moved_count > tr[i].before.moved_count
           => store.parent[tr[i].id] = last.parent
    /\ tr # <<>> => /\ tr[Len(tr)].after.store = store
                    /\ tr[Len(tr)].after.errors = last.res.errors

\* C11: in move_many, when a remote call made for one entry fails (a read or
\* the write raises, or the write answers False), the entry is counted as
\* failed with its own error message, every later entry is still attempted,
\* and the entries already moved stay moved.
C11_BatchFaultPerItem ==
    (last.op = "move_many" /\ last.res.counts)
    => LET tr == LastBatchTrace
       IN  /\ BatchWentOn(tr)
           /\ \A i \in 1..Len(tr) :
                FailedRpcs(tr[i], tr[i].first) # {} => CountedFailed(tr[i])

\* C11 for the calls an entry makes after the acyclicity check: the lookup of
\* the entry and the write.
C11_ExceptWalk ==
    (last.op = "move_many" /\ last.res.counts)
    => LET tr == LastBatchTrace
       IN  /\ BatchWentOn(tr)
           /\ \A i \in 1..Len(tr) :
                FailedRpcs(tr[i], tr[i].walk_to + 1) # {} => CountedFailed(tr[i])

\* C11's case: the first entry's write failed and the second entry moved.
C11_Witness ==
    /\ last.op = "move_many" /\ last.res.counts
    /\ Len(last.ids) = 2
    /\ last.res.failed_count = 1 /\ last.res.moved_count = 1
    /\ last.res.errors[1].id = last.ids[1]
    /\ last.res.errors[1].cause \in {"exception", "write_failed"}
    /\ store.parent[last.ids[2]] = last.parent

\* ------------------------------------------------------------ remote order
\* The order in which search_records returns the records of the task table.
Ascending == [i \in 1..NumTasks |-> i]
Descending == [i \in 1..NumTasks |-> NumTasks + 1 - i]

\* self.tasks.search_records([('parent_id', '=', int(task_id))])
SearchChildren(st, task_id) == SelectSeq(st.order, LAMBDA t : st.parent[t] = task_id)

\* SearchProjectTasks that returns the tasks of every project.
SearchProjectTasks_AllTasks(st, project_id) == st.order

\* self.tasks.search_records([('project_id', '=', int(project_id))])
SearchProjectTasks(st, project_id) ==
    SelectSeq(st.order, LAMBDA t : st.project[t] = project_id)

\* The main tasks of show_project_hierarchy: the project's tasks without parent.
MainTasks(st, project_id) ==
    SelectSeq(SearchProjectTasks(st, project_id), LAMBDA t : ~Truthy(st.parent[t]))

\* ------------------------------------------------------------ operations, loop round by loop round
\* One operation is followed from its call to its return; a step is one round
\* of a loop (or one call or return of the child recursion) with the
\* straight-line code around it.  The remote table may hold any parent
\* relation: self-parents, cycles, parents that do not exist.
AnyParentStores ==
    [parent : [Tasks -> {0} \cup IdArgs], project : [Tasks -> Projects], order : {Ascending}]

InitRun ==
    /\ store \in AnyParentStores
    /\ last = NoCall
    /\ callers = [c \in Callers |-> Idle]
    /\ run = NoRun

\* _would_create_circular_dependency(s, p) is entered by operation r.
BeginCheck(r, s, p) ==
    IF s = p
    THEN [r EXCEPT !.pc = "after_check", !.subtask_id = s, !.new_parent_id = p,
                   !.circular = TRUE]
    ELSE [r EXCEPT !.pc = "walk", !.subtask_id = s, !.new_parent_id = p,
                   !.current_id = p, !.visited = {}, !.circular = FALSE]

Begin(op) == [NoRun EXCEPT !.op = op]

\* move_subtask up to the acyclicity check.
StartMove ==
    /\ run.pc = "idle"
    /\ \E s \in IdArgs, p \in IdArgs :
        run' = IF s \in TaskIds(store) /\ p \in TaskIds(store)
               THEN BeginCheck(Begin("move"), s, p)
               ELSE [Begin("move") EXCEPT !.pc = "done"]
    /\ UNCHANGED <<store, last, callers>>

\* promote_task: no loop.
StartPromote ==
    /\ run.pc = "idle"
    /\ \E t \in IdArgs :
        /\ run' = [Begin("promote") EXCEPT !.pc = "done", !.subtask_id = t]
        /\ store' = IF t \in TaskIds(store) /\ Truthy(store.parent[t])
                    THEN ApplyWrite(store, t, [parent_id |-> 0, project_id |-> None])
                    ELSE store
    /\ UNCHANGED <<last, callers>>

\* move_multiple_subtasks up to its for loop.
StartMoveMany ==
    /\ run.pc = "idle"
    /\ \E ids \in IdLists, p \in IdArgs :
        run' = IF p \in TaskIds(store)
               THEN [Begin("move_many") EXCEPT !.pc = "entry", !.ids = ids, !.new_parent_id = p]
               ELSE [Begin("move_many") EXCEPT !.pc = "done"]
    /\ UNCHANGED <<store, last, callers>>

\* for subtask_id in subtask_ids: the next entry, or the end of the list.
NextEntry ==
    /\ run.pc = "entry"
    /\ run' = IF run.ids = <<>> THEN [run EXCEPT !.pc = "done"]
              ELSE BeginCheck([run EXCEPT !.ids = Tail(@)], Head(run.ids), run.new_parent_id)
    /\ UNCHANGED <<store, last, callers>>

\* WalkRound without the test that current_id was not visited before.
WalkRound_NoVisitedTest ==
    /\ run.pc = "walk"
    /\ LET cur == run.current_id
       IN  run' = IF ~Truthy(cur) THEN [run EXCEPT !.pc = "after_check"]
                  ELSE IF cur \notin TaskIds(store) THEN [run EXCEPT !.pc = "after_check"]
                  ELSE IF ~Truthy(store.parent[cur]) THEN [run EXCEPT !.pc = "after_check"]
                  ELSE IF store.parent[cur] = run.subtask_id
                       THEN [run EXCEPT !.pc = "after_check", !.circular = TRUE]
                  ELSE [run EXCEPT !.current_id = store.parent[cur],
                                   !.visited = @ \cup {cur}]
    /\ UNCHANGED <<store, last, callers>>

\* One round of the while loop of _is_descendant, loop test included.
WalkRound ==
    /\ run.pc = "walk"
    /\ LET cur == run.current_id
       IN  run' = IF ~(Truthy(cur) /\ cur \notin run.visited)
                  THEN [run EXCEPT !.pc = "after_check"]
                  ELSE IF cur \notin TaskIds(store)
                       THEN [run EXCEPT !.pc = "after_check", !.visited = @ \cup {cur}]
                  ELSE IF ~Truthy(store.parent[cur])
                       THEN [run EXCEPT !.pc = "after_check", !.visited = @ \cup {cur}]
                  ELSE IF store.parent[cur] = run.subtask_id
                       THEN [run EXCEPT !.pc = "after_check", !.visited = @ \cup {cur},
                                        !.circular = TRUE]
                  ELSE [run EXCEPT !.current_id = store.parent[cur],
                                   !.visited = @ \cup {cur}]
    /\ UNCHANGED <<store, last, callers>>

\* After the acyclicity check: the entry is refused or written (by
\* move_multiple_subtasks only when it exists), then the operation returns or
\* goes on to the next entry.
AfterCheck ==
    /\ run.pc = "after_check"
    /\ store' = IF ~run.circular /\ run.subtask_id \in TaskIds(store)
                THEN ApplyWrite(store, run.subtask_id,
                                [parent_id |-> run.new_parent_id, project_id |-> None])
                ELSE store
    /\ run' = [run EXCEPT !.pc = IF run.op = "move_many" THEN "entry" ELSE "done"]
    /\ UNCHANGED <<last, callers>>

\* show_hierarchy up to the loop of _get_parent_chain.
StartShowHierarchy ==
    /\ run.pc = "idle"
    /\ \E task_id \in IdArgs, max_depth \in 0..MaxDepth :
        run' = IF task_id \in TaskIds(store)
               THEN [Begin("show_hierarchy") EXCEPT !.pc = "chain", !.subtask_id = task_id,
                        !.max_depth = max_depth, !.current_id = task_id]
               ELSE [Begin("show_hierarchy") EXCEPT !.pc = "done"]
    /\ UNCHANGED <<store, last, callers>>

\* _get_children_recursive(task_id, max_depth, depth) is called with the
\* frames of stack below it: it returns at once at the depth cutoff, else it
\* queries the children of task_id and has them all to process.
CallChildren(stack, task_id, depth) ==
    IF depth >= run.max_depth THEN stack
    ELSE Append(stack, [task_id |-> task_id, depth |-> depth,
                        todo |-> SearchChildren(store, task_id)])

\* One round of the while loop of _get_parent_chain, loop test included; when
\* the loop ends show_hierarchy calls _get_children_recursive(task_id, max_depth).
ChainRound ==
    /\ run.pc = "chain"
    /\ LET cur == run.current_id
           ended == [run EXCEPT !.pc = "children",
                                !.stack = CallChildren(<<>>, run.subtask_id, 0)]
           broken == [ended EXCEPT !.visited = @ \cup {cur}]
       IN  run' = IF ~(Truthy(cur) /\ cur \notin run.visited) THEN ended
                  ELSE IF cur \notin TaskIds(store) THEN broken
                  ELSE IF ~Truthy(store.parent[cur]) THEN broken
                  ELSE IF store.parent[cur] \notin TaskIds(store) THEN broken
                  ELSE [run EXCEPT !.current_id = store.parent[cur],
                                   !.visited = @ \cup {cur}]
    /\ UNCHANGED <<store, last, callers>>

\* One round of the for loop over child_records in the innermost running call
\* of _get_children_recursive: the next child, with the recursive call for it
\* when current_depth + 1 < max_depth; or the return when no child is left.
ChildRound ==
    /\ run.pc = "children"
    /\ run.stack # <<>>
    /\ LET n == Len(run.stack)
           f == run.stack[n]
       IN  run' = IF f.todo = <<>>
                  THEN [run EXCEPT !.stack = SubSeq(@, 1, n - 1)]
                  ELSE [run EXCEPT !.stack =
                           IF f.depth + 1 < run.max_depth
                           THEN CallChildren([@ EXCEPT ![n].todo = Tail(f.todo)],
                                             Head(f.todo), f.depth + 1)
                           ELSE [@ EXCEPT ![n].todo = Tail(f.todo)]]
    /\ UNCHANGED <<store, last, callers>>

\* The outermost call of _get_children_recursive has returned: show_hierarchy
\* returns, show_project_hierarchy goes on to its next main task.
ChildrenReturned ==
    /\ run.pc = "children"
    /\ run.stack = <<>>
    /\ run' = [run EXCEPT !.pc = IF run.op = "show_project_hierarchy" THEN "main" ELSE "done"]
    /\ UNCHANGED <<store, last, callers>>

\* show_project_hierarchy up to its loop over the main tasks.
StartShowProjectHierarchy ==
    /\ run.pc = "idle"
    /\ \E project_id \in {1, 2}, max_depth \in 0..MaxDepth :
        run' = IF project_id \in Projects
               THEN [Begin("show_project_hierarchy") EXCEPT !.pc = "main",
                        !.max_depth = max_depth, !.ids = MainTasks(store, project_id)]
               ELSE [Begin("show_project_hierarchy") EXCEPT !.pc = "done"]
    /\ UNCHANGED <<store, last, callers>>

\* for i, main_task in enumerate(main_tasks): the next main task, for which
\* _get_children_recursive(main_task.id, max_depth) is called, or the end.
NextMainTask ==
    /\ run.pc = "main"
    /\ run' = IF run.ids = <<>> THEN [run EXCEPT !.pc = "done"]
              ELSE [run EXCEPT !.pc = "children", !.ids = Tail(@),
                               !.stack = CallChildren(<<>>, Head(run.ids), 0)]
    /\ UNCHANGED <<store, last, callers>>

NextRun ==
    \/ StartMove
    \/ StartPromote
    \/ StartMoveMany
    \/ NextEntry
    \/ WalkRound
    \/ AfterCheck
    \/ StartShowHierarchy
    \/ ChainRound
    \/ ChildRound
    \/ ChildrenReturned
    \/ StartShowProjectHierarchy
    \/ NextMainTask

SpecRun == InitRun /\ [][NextRun]_vars

\* The scheduler keeps running the code of the operation: a step that can be
\* taken is taken.
SpecRunLive == SpecRun /\ WF_vars(NextRun)

\* C12: every core operation (move, promote, move_many, show_hierarchy,
\* show_project_hierarchy) returns, on every finite store, also one whose
\* parent relation holds a cycle: the upward walks end at a task without
\* parent, at a missing task or at the first id seen before, and the child
\* recursion is never deeper than max_depth.
C12_Terminates == <>(run.pc = "done")

\* While an operation runs: the walks have seen every id at most once, and the
\* child recursion is at most max_depth calls deep.
C12_WalksBounded ==
    /\ run.visited \subseteq IdArgs
    /\ Len(run.stack) <= run.max_depth
    /\ \A i \in 1..Len(run.stack) : run.stack[i].depth = i - 1

\* C12's case: a move returned whose walk went round a cycle of the store and
\* ended at the id it had seen before.
C12_Witness ==
    /\ run.pc = "done" /\ run.op = "move"
    /\ ~IsForest(store)
    /\ run.current_id \in run.visited
    /\ Cardinality(run.visited) >= 2

\* C12's other case: the child recursion on a store with a cycle returned.
C12_WitnessChildren ==
    /\ run.pc = "done" /\ run.op = "show_hierarchy"
    /\ run.max_depth = MaxDepth
    /\ store.parent[run.subtask_id] = run.subtask_id

\* ------------------------------------------------------------ hierarchy builder
\* store.stage[t]: the name of the stage of task t ("": stage_id is False);
\* store.priority[t]: the priority of task t, a selection value such as '1'
\* ("unset": priority is False).

\* _task_to_dict: the fields of a task record that the hierarchy carries.
\* stage_name is 'No stage' without a stage; priority is str(priority_value).
_task_to_dict(st, t) ==
    [id |-> t,
     stage_name |-> IF st.stage[t] = "" THEN "No stage" ELSE st.stage[t],
     priority |-> IF st.priority[t] = "unset" THEN "False" ELSE st.priority[t],
     children |-> <<>>]

\* _get_children_recursive(task_id, max_depth, current_depth): the children of
\* task_id as dicts, each with its own children while current_depth + 1 <
\* max_depth; lg is the log of the remote calls so far.  ChildrenLoop is its
\* for loop over child_records, children the list built so far.
RECURSIVE _get_children_recursive(_, _, _, _, _)
RECURSIVE ChildrenLoop(_, _, _, _, _, _)

\* _get_children_recursive whose cutoff test is current_depth > max_depth.
_get_children_recursive_LateCutoff(st, lg, task_id, max_depth, current_depth) ==
    IF current_depth > max_depth THEN [children |-> <<>>, lg |-> lg]
    ELSE ChildrenLoop(st, Append(lg, Rpc("search_children", task_id, NoVals)),
                      SearchChildren(st, task_id), max_depth, current_depth, <<>>)

_get_children_recursive(st, lg, task_id, max_depth, current_depth) ==
    IF current_depth >= max_depth THEN [children |-> <<>>, lg |-> lg]
    ELSE ChildrenLoop(st, Append(lg, Rpc("search_children", task_id, NoVals)),
                      SearchChildren(st, task_id), max_depth, current_depth, <<>>)

ChildrenLoop(st, lg, child_records, max_depth, current_depth, children) ==
    IF child_records = <<>> THEN [children |-> children, lg |-> lg]
    ELSE LET child == Head(child_records)
             sub == IF current_depth + 1 < max_depth
                    THEN _get_children_recursive(st, lg, child, max_depth, current_depth + 1)
                    ELSE [children |-> <<>>, lg |-> lg]
             child_dict == [_task_to_dict(st, child) EXCEPT !.children = sub.children]
         IN  ChildrenLoop(st, sub.lg, Tail(child_records), max_depth, current_depth,
                          Append(children, child_dict))

\* ParentChainLoop that lists a parent also when its lookup finds nothing.
RECURSIVE ParentChainLoop_KeepsMissing(_, _, _, _, _)
ParentChainLoop_KeepsMissing(st, lg, current_id, visited, parents) ==
    IF ~(Truthy(current_id) /\ current_id \notin visited) \/ current_id \notin TaskIds(st)
    THEN [parents |-> parents, lg |-> lg]
    ELSE LET parent_id == st.parent[current_id]
         IN  IF Truthy(parent_id)
             THEN ParentChainLoop_KeepsMissing(st, lg, parent_id, visited \cup {current_id},
                      <<[id |-> parent_id, stage_name |-> "No stage", priority |-> "0",
                         children |-> <<>>]>> \o parents)
             ELSE [parents |-> parents, lg |-> lg]

\* ParentChainLoop that appends each parent at the end of the chain.
RECURSIVE ParentChainLoop_NearestFirst(_, _, _, _, _)
ParentChainLoop_NearestFirst(st, lg, current_id, visited, parents) ==
    IF ~(Truthy(current_id) /\ current_id \notin visited) \/ current_id \notin TaskIds(st)
    THEN [parents |-> parents, lg |-> lg]
    ELSE LET parent_id == st.parent[current_id]
         IN  IF Truthy(parent_id) /\ parent_id \in TaskIds(st)
             THEN ParentChainLoop_NearestFirst(st, lg, parent_id, visited \cup {current_id},
                                               Append(parents, _task_to_dict(st, parent_id)))
             ELSE [parents |-> parents, lg |-> lg]

\* The while loop of _get_parent_chain from current_id on; parents is the
\* chain built so far, outermost ancestor first.
RECURSIVE ParentChainLoop(_, _, _, _, _)
ParentChainLoop(st, lg, current_id, visited, parents) ==
    IF ~(Truthy(current_id) /\ current_id \notin visited)
    THEN [parents |-> parents, lg |-> lg]
    ELSE LET q == SearchTask(st, NoFaults, lg, current_id)
         IN  IF ~q.found THEN [parents |-> parents, lg |-> q.lg]
             ELSE LET parent_id == st.parent[current_id]
                  IN  IF Truthy(parent_id)
                      THEN LET q2 == SearchTask(st, NoFaults, q.lg, parent_id)
                           IN  IF q2.found
                               THEN ParentChainLoop(st, q2.lg, parent_id,
                                                    visited \cup {current_id},
                                                    <<_task_to_dict(st, parent_id)>> \o parents)
                               ELSE [parents |-> parents, lg |-> q2.lg]
                      ELSE [parents |-> parents, lg |-> q.lg]

_get_parent_chain(st, lg, task_id) == ParentChainLoop(st, lg, task_id, {}, <<>>)

NoHierarchy == [kind |-> "none"]

\* show_hierarchy(task_id, max_depth)
show_hierarchy(st, task_id, max_depth) ==
    LET q == SearchTask(st, NoFaults, <<>>, task_id)
    IN  IF ~q.found
        THEN [success |-> FALSE, error |-> "task_not_found", hierarchy |-> NoHierarchy,
              lg |-> q.lg]
        ELSE LET chain == _get_parent_chain(st, q.lg, task_id)
                 kids == _get_children_recursive(st, chain.lg, task_id, max_depth, 0)
             IN  [success |-> TRUE, error |-> "",
                  hierarchy |-> [kind |-> "task", main_task |-> _task_to_dict(st, task_id),
                                 parents |-> chain.parents, children |-> kids.children],
                  lg |-> kids.lg]

\* The loop of show_project_hierarchy over main_tasks; acc holds the dicts
\* built so far and the log.
RECURSIVE MainTasksLoop(_, _, _, _)
MainTasksLoop(st, acc, main_tasks, max_depth) ==
    IF main_tasks = <<>> THEN acc
    ELSE LET kids == _get_children_recursive(st, acc.lg, Head(main_tasks), max_depth, 0)
             task_dict == [_task_to_dict(st, Head(main_tasks)) EXCEPT !.children = kids.children]
         IN  MainTasksLoop(st, [main_tasks |-> Append(acc.main_tasks, task_dict), lg |-> kids.lg],
                           Tail(main_tasks), max_depth)

\* show_project_hierarchy that answers an empty hierarchy for a project that
\* does not exist.
show_project_hierarchy_EmptyForUnknown(st, project_id, max_depth) ==
    LET all_tasks == SearchProjectTasks(st, project_id)
        main_tasks == SelectSeq(all_tasks, LAMBDA t : ~Truthy(st.parent[t]))
        built == MainTasksLoop(st, [main_tasks |-> <<>>, lg |-> <<>>], main_tasks, max_depth)
    IN  [success |-> TRUE, error |-> "",
         hierarchy |-> [kind |-> "project", project |-> [id |-> project_id],
                        main_tasks |-> built.main_tasks,
                        total_tasks |-> Len(all_tasks),
                        main_task_count |-> Len(main_tasks)],
         lg |-> built.lg]

\* show_project_hierarchy(project_id, max_depth)
show_project_hierarchy(st, project_id, max_depth) ==
    LET q == SearchProject(st, NoFaults, <<>>, project_id)
    IN  IF ~q.found
        THEN [success |-> FALSE, error |-> "project_not_found", hierarchy |-> NoHierarchy,
              lg |-> q.lg]
        ELSE LET all_tasks == SearchProjectTasks(st, project_id)
                 main_tasks == SelectSeq(all_tasks, LAMBDA t : ~Truthy(st.parent[t]))
                 lg1 == Append(q.lg, Rpc("search_project_tasks", project_id, NoVals))
                 built == MainTasksLoop(st, [main_tasks |-> <<>>, lg |-> lg1],
                                        main_tasks, max_depth)
             IN  [success |-> TRUE, error |-> "",
                  hierarchy |-> [kind |-> "project", project |-> [id |-> project_id],
                                 main_tasks |-> built.main_tasks,
                                 total_tasks |-> Len(all_tasks),
                                 main_task_count |-> Len(main_tasks)],
                  lg |-> built.lg]

\* ------------------------------------------------------------ JSON presenter
\* int(priority_value) for the priority strings of the model; NotAnInt stands
\* for the ValueError int() raises on any other string.
NotAnInt == -2

\* The largest priority number of the model.
MaxPriority == 5

IntOf(str) ==
    IF \E n \in -1..MaxPriority : ToString(n) = str
    THEN CHOOSE n \in -1..MaxPriority : ToString(n) = str
    ELSE NotAnInt

\* normalize_priority(priority_value): level and stars (name goes with level).
normalize_priority(priority_value) ==
    LET priority == IF priority_value = "" THEN 0 ELSE IntOf(priority_value)
    IN  IF priority = NotAnInt THEN [level |-> 0, stars |-> 1]
        ELSE IF priority = 0 THEN [level |-> 0, stars |-> 1]
        ELSE IF priority = 1 THEN [level |-> 1, stars |-> 2]
        ELSE IF priority = 2 THEN [level |-> 2, stars |-> 3]
        ELSE IF priority >= 3 THEN [level |-> 3, stars |-> 4]
        ELSE [level |-> 0, stars |-> 1]

\* clean_stage_name(stage_name) on the stage names of the model: '' and
\* 'No Stage' give 'No Stage'; else a leading digits-and-underscore prefix is
\* removed, underscores become spaces and the words are title-cased.
clean_stage_name(stage_name) ==
    CASE stage_name \in {"", "No Stage"} -> "No Stage"
      [] stage_name = "No stage" -> "No Stage"
      [] stage_name \in {"01_done", "Done"} -> "Done"
      [] stage_name = "waiting" -> "Waiting"
      [] OTHER -> stage_name

\* convert_task_node(task_data): the JSON node of a task dict, children included.
RECURSIVE convert_task_node(_)
convert_task_node(task_data) ==
    [id |-> task_data.id, type |-> "task",
     stage |-> clean_stage_name(task_data.stage_name),
     priority |-> normalize_priority(task_data.priority),
     children |-> [i \in 1..Len(task_data.children) |->
                      convert_task_node(task_data.children[i])]]

\* collect_filter_data(node): the stages and priority levels of node and of
\* the nodes below it, when node is a task node.
RECURSIVE collect_filter_data(_)
collect_filter_data(node) ==
    IF node.type = "task"
    THEN LET below == [i \in 1..Len(node.children) |-> collect_filter_data(node.children[i])]
         IN  [stages |-> {node.stage} \cup UNION {below[i].stages : i \in 1..Len(below)},
              priorities |-> {node.priority.level}
                                \cup UNION {below[i].priorities : i \in 1..Len(below)}]
    ELSE [stages |-> {}, priorities |-> {}]

\* Python's order on the stage names of the model (by code point: D < N < W).
StageRank(stage) ==
    CASE stage = "Done" -> 1
      [] stage = "No Stage" -> 2
      [] stage = "Waiting" -> 3
      [] OTHER -> 4

\* sorted(list(stages))
RECURSIVE SortedStages(_)
SortedStages(S) ==
    IF S = {} THEN <<>>
    ELSE LET least == CHOOSE x \in S : \A y \in S : StageRank(x) <= StageRank(y)
         IN  <<least>> \o SortedStages(S \ {least})

\* sorted(list(priorities))
RECURSIVE SortedLevels(_)
SortedLevels(S) ==
    IF S = {} THEN <<>>
    ELSE LET least == CHOOSE x \in S : \A y \in S : x <= y
         IN  <<least>> \o SortedLevels(S \ {least})

NoWeb == [type |-> "none"]

\* convert_hierarchy_for_web(hierarchy, hierarchy_type)
convert_hierarchy_for_web(hierarchy, hierarchy_type) ==
    LET root == IF hierarchy_type = "project"
                THEN [id |-> hierarchy.project.id, type |-> "project",
                      total_tasks |-> hierarchy.total_tasks,
                      main_tasks |-> hierarchy.main_task_count,
                      children |-> [i \in 1..Len(hierarchy.main_tasks) |->
                                       convert_task_node(hierarchy.main_tasks[i])]]
                ELSE convert_task_node(hierarchy.main_task)
        parents == IF hierarchy_type = "project" THEN <<>>
                   ELSE [i \in 1..Len(hierarchy.parents) |->
                            convert_task_node(hierarchy.parents[i])]
        found == collect_filter_data(root)
    IN  IF hierarchy_type \in {"project", "task"}
        THEN [type |-> hierarchy_type, root |-> root, parents |-> parents,
              filter_data |-> [stages |-> SortedStages(found.stages),
                               priorities |-> SortedLevels(found.priorities)]]
        ELSE NoWeb

\* ------------------------------------------------------------ hierarchy requests
\* max_depth=3, the default of show_hierarchy and show_project_hierarchy.
DefaultMaxDepth == 3

NoResult == [success |-> FALSE, error |-> "", hierarchy |-> NoHierarchy, lg |-> <<>>]

\* What a hierarchy handler answers: the HTTP status, the result of the
\* builder (NoResult when it was not called) and the presenter's document
\* (NoWeb when the presenter was not called).
Answer(status, result, web) == [status |-> status, result |-> result, web |-> web]

\* handle_task_hierarchy_api(task_id); task_id is what extract_id_from_path
\* returned, an integer or None.
handle_task_hierarchy_api(st, task_id) ==
    IF ~Truthy(task_id) THEN Answer(400, NoResult, NoWeb)
    ELSE LET result == show_hierarchy(st, task_id, DefaultMaxDepth)
         IN  IF result.success
             THEN Answer(200, result, convert_hierarchy_for_web(result.hierarchy, "task"))
             ELSE Answer(400, result, NoWeb)

\* handle_project_hierarchy_api(project_id)
handle_project_hierarchy_api(st, project_id) ==
    IF ~Truthy(project_id) THEN Answer(400, NoResult, NoWeb)
    ELSE LET result == show_project_hierarchy(st, project_id, DefaultMaxDepth)
         IN  IF result.success
             THEN Answer(200, result, convert_hierarchy_for_web(result.hierarchy, "project"))
             ELSE Answer(400, result, NoWeb)

\* Stores for the builder: any parent relation (self-parents, cycles, parents
\* that do not exist), tasks in the project or in none, either remote order.
HierarchyStores ==
    [parent : [Tasks -> {0} \cup IdArgs], project : [Tasks -> {0} \cup Projects],
     order : {Ascending, Descending},
     stage : {[t \in Tasks |-> ""]}, priority : {[t \in Tasks |-> "0"]}]

\* What a task looks like to the presenter: its stage name and its priority.
TaskLooks ==
    {[stage |-> "", priority |-> "unset"], [stage |-> "01_done", priority |-> "0"],
     [stage |-> "Done", priority |-> "1"], [stage |-> "waiting", priority |-> "4"]}

\* Stores for the presenter: forests of tasks of the project, of any looks.
RenderStores ==
    {[parent |-> f.parent, project |-> [t \in Tasks |-> 1], order |-> Ascending,
      stage |-> [t \in Tasks |-> look[t].stage],
      priority |-> [t \in Tasks |-> look[t].priority]] :
        f \in {st \in ForestStores : \A t \in Tasks : st.project[t] = 0},
        look \in [Tasks -> TaskLooks]}

\* The record of a finished hierarchy call.
HierarchyCall(op, id, max_depth, depth, answer) ==
    [op |-> op, task |-> id, max_depth |-> max_depth, depth |-> depth,
     status |-> answer.status, res |-> answer.result, web |-> answer.web]

\* A caller runs show_hierarchy.
ShowHierarchy ==
    /\ last.op = "none"
    /\ \E task_id \in IdArgs, max_depth \in 0..MaxDepth :
        last' = HierarchyCall("show_hierarchy", task_id, max_depth, 0,
                              Answer(0, show_hierarchy(store, task_id, max_depth), NoWeb))
    /\ UNCHANGED <<store, callers, run>>

\* A caller runs show_project_hierarchy.
ShowProjectHierarchy ==
    /\ last.op = "none"
    /\ \E project_id \in {1, 2}, max_depth \in 0..MaxDepth :
        last' = HierarchyCall("show_project_hierarchy", project_id, max_depth, 0,
                              Answer(0, show_project_hierarchy(store, project_id, max_depth),
                                     NoWeb))
    /\ UNCHANGED <<store, callers, run>>

\* _get_children_recursive is called for a task at some depth.
GetChildren ==
    /\ last.op = "none"
    /\ \E task_id \in IdArgs, max_depth \in 0..MaxDepth, depth \in 0..(MaxDepth + 1) :
        \E r \in {_get_children_recursive(store, <<>>, task_id, max_depth, depth)} :
            last' = HierarchyCall("get_children", task_id, max_depth, depth,
                        Answer(0, [success |-> TRUE, error |-> "", lg |-> r.lg,
                                   hierarchy |-> [kind |-> "children",
                                                  children |-> r.children]], NoWeb))
    /\ UNCHANGED <<store, callers, run>>

\* GET /api/hierarchy/task/<id>
HandleTaskHierarchyApi ==
    /\ last.op = "none"
    /\ \E task_id \in {None, 0} \cup IdArgs :
        last' = HierarchyCall("task_api", task_id, DefaultMaxDepth, 0,
                              handle_task_hierarchy_api(store, task_id))
    /\ UNCHANGED <<store, callers, run>>

\* GET /api/hierarchy/project/<id>
HandleProjectHierarchyApi ==
    /\ last.op = "none"
    /\ \E project_id \in {None, 0, 1, 2} :
        last' = HierarchyCall("project_api", project_id, DefaultMaxDepth, 0,
                              handle_project_hierarchy_api(store, project_id))
    /\ UNCHANGED <<store, callers, run>>

NextHierarchy ==
    \/ ShowHierarchy
    \/ ShowProjectHierarchy
    \/ GetChildren
    \/ HandleTaskHierarchyApi
    \/ HandleProjectHierarchyApi
    \/ Return

InitHierarchy ==
    /\ store \in HierarchyStores
    /\ last = NoCall
    /\ callers = [c \in Callers |-> Idle]
    /\ run = NoRun

SpecHierarchy == InitHierarchy /\ [][NextHierarchy]_vars

InitRender ==
    /\ store \in RenderStores
    /\ last = NoCall
    /\ callers = [c \in Callers |-> Idle]
    /\ run = NoRun

SpecRender == InitRender /\ [][NextHierarchy]_vars

\* ------------------------------------------------------------ claims on the hierarchy
\* The ids of the nodes k levels below the top of a list of nodes.
RECURSIVE NodeIdsAtLevel(_, _)
NodeIdsAtLevel(nodes, k) ==
    IF k = 0 THEN {nodes[i].id : i \in 1..Len(nodes)}
    ELSE UNION {NodeIdsAtLevel(nodes[i].children, k - 1) : i \in 1..Len(nodes)}

\* The task that following parent_id k times from t reaches (None: no such task).
RECURSIVE KthAncestor(_, _, _)
KthAncestor(st, t, k) ==
    IF t \notin TaskIds(st) THEN None
    ELSE IF k = 0 THEN t
    ELSE KthAncestor(st, st.parent[t], k - 1)

\* The tasks lying k levels below one of the tasks of mains.
TasksBelow(st, mains, k) == {t \in TaskIds(st) : KthAncestor(st, t, k) \in mains}

\* The ids of the main tasks of project_id.
MainTaskIds(st, project_id) ==
    {t \in TaskIds(st) : st.project[t] = project_id /\ ~Truthy(st.parent[t])}

\* C13: _get_children_recursive(task, max_depth, depth) returns the empty list
\* whenever depth >= max_depth, whatever the store holds (also when the task
\* has children and deeper descendants), and then issues no remote query.
C13_DepthCutoff ==
    (last.op = "get_children" /\ last.depth >= last.max_depth)
    => (last.res.hierarchy.children = <<>> /\ last.res.lg = <<>>)

\* C13's case: the call was made at depth = max_depth = 2 for a task that has
\* a child which has a child.
C13_Witness ==
    /\ last.op = "get_children"
    /\ last.depth = 2 /\ last.max_depth = 2
    /\ last.res.hierarchy.children = <<>>
    /\ \E c \in TaskIds(store) :
        /\ store.parent[c] = last.task
        /\ SearchChildren(store, c) # <<>>

\* C14: in show_project_hierarchy each main task is expanded starting at
\* depth 1: a task lying k >= 1 levels below a main task is in the tree iff
\* k < max_depth (with max_depth = 1 the main tasks have no children).
C14_ExpandedFromDepthOne ==
    (last.op = "show_project_hierarchy" /\ last.res.success)
    => \A k \in 1..NumTasks :
        NodeIdsAtLevel(last.res.hierarchy.main_tasks, k) =
            IF k < last.max_depth
            THEN TasksBelow(store, MainTaskIds(store, last.task), k)
            ELSE {}

\* What the code does: each main task is expanded starting at depth 0, so a
\* task lying k levels below a main task is in the tree iff k <= max_depth.
C14_ExpandedFromDepthZero ==
    (last.op = "show_project_hierarchy" /\ last.res.success)
    => \A k \in 1..NumTasks :
        NodeIdsAtLevel(last.res.hierarchy.main_tasks, k) =
            IF k <= last.max_depth
            THEN TasksBelow(store, MainTaskIds(store, last.task), k)
            ELSE {}

\* The ids of a list of nodes, in list order.
NodeIds(nodes) == [i \in 1..Len(nodes) |-> nodes[i].id]

\* Every node of the list is the dict of its task, and its children are the
\* tasks whose parent_id is the node, in store order, or none where the depth
\* limit cut the tree; the same holds below it.
RECURSIVE ChildrenAreStoreChildren(_, _)
ChildrenAreStoreChildren(st, nodes) ==
    \A i \in 1..Len(nodes) :
        /\ [nodes[i] EXCEPT !.children = <<>>] = _task_to_dict(st, nodes[i].id)
        /\ NodeIds(nodes[i].children) \in {<<>>, SearchChildren(st, nodes[i].id)}
        /\ ChildrenAreStoreChildren(st, nodes[i].children)

\* C15: for an existing project P, show_project_hierarchy(P, max_depth)
\* succeeds with total_tasks = the number of tasks whose project_id is P,
\* main_task_count = the number of those without parent, main_tasks = those
\* parentless tasks in store order, and each node's children = the tasks whose
\* parent_id is that node (within the depth limit; the main tasks' own
\* children are there from max_depth 2 on); without tasks the result is a
\* success with an empty main_tasks list.
C15_ProjectHierarchy ==
    (last.op = "show_project_hierarchy" /\ last.task \in Projects)
    => LET h == last.res.hierarchy
           in_project == {t \in TaskIds(store) : store.project[t] = last.task}
           mains == SelectSeq(store.order,
                              LAMBDA t : t \in in_project /\ store.parent[t] = 0)
       IN  /\ last.res.success
           /\ h.total_tasks = Cardinality(in_project)
           /\ h.main_task_count = Len(mains)
           /\ NodeIds(h.main_tasks) = mains
           /\ ChildrenAreStoreChildren(store, h.main_tasks)
           /\ last.max_depth >= 2
              => \A i \in 1..Len(mains) :
                    NodeIds(h.main_tasks[i].children) = SearchChildren(store, mains[i])
           /\ in_project = {} => h.main_tasks = <<>>

\* C15's case: the project has two main tasks, returned in the remote order
\* (here descending ids), one of them with a subtask, and a task of another
\* project is not counted.
C15_Witness ==
    /\ last.op = "show_project_hierarchy" /\ last.res.success
    /\ last.res.hierarchy.total_tasks = 2
    /\ last.res.hierarchy.main_task_count = 2
    /\ NodeIds(last.res.hierarchy.main_tasks) = <<2, 1>>
    /\ NodeIds(last.res.hierarchy.main_tasks[1].children) = <<3>>

\* C15's other case: a project without tasks.
C15_WitnessEmpty ==
    /\ last.op = "show_project_hierarchy" /\ last.res.success
    /\ last.res.hierarchy.total_tasks = 0
    /\ last.res.hierarchy.main_tasks = <<>>

\* No id is both at a node of the list and at a node below that node, nor in seen.
RECURSIVE NoIdBelowItself(_, _)
NoIdBelowItself(nodes, seen) ==
    \A i \in 1..Len(nodes) :
        /\ nodes[i].id \notin seen
        /\ NoIdBelowItself(nodes[i].children, seen \cup {nodes[i].id})

\* The hierarchy of the call in last, as a list of trees: the task with its
\* children, or the main tasks of the project.
LastTrees ==
    LET h == last.res.hierarchy
    IN  IF h.kind = "task" THEN <<[h.main_task EXCEPT !.children = h.children]>>
        ELSE h.main_tasks

\* C16: every hierarchy show_hierarchy or show_project_hierarchy returns is a
\* tree in which no task id is both at a node and at a node below it, for
\* every store content and every max_depth.
C16_NoNodeBelowItself ==
    (last.op \in {"show_hierarchy", "show_project_hierarchy"} /\ last.res.success)
    => NoIdBelowItself(LastTrees, {})

\* C16 on the stores whose parent relation has no cycle.
C16_OnAcyclicStores ==
    (/\ last.op \in {"show_hierarchy", "show_project_hierarchy"}
     /\ last.res.success
     /\ \A t \in TaskIds(store) : t \notin Ancestors(store, t))
    => NoIdBelowItself(LastTrees, {})

\* C16 for the hierarchies of projects, on every store.
C16_ProjectHierarchies ==
    (last.op = "show_project_hierarchy" /\ last.res.success)
    => NoIdBelowItself(LastTrees, {})

\* The root id of the call in last resolves in the store: the task exists, or
\* the project does.
RootResolves ==
    IF last.op \in {"show_hierarchy", "task_api"}
    THEN last.task \in TaskIds(store)
    ELSE last.task \in Projects

\* C17: show_hierarchy / show_project_hierarchy return a not-found failure,
\* and no hierarchy, exactly when the root task / project id does not resolve
\* in the store; and then the web handlers do not call the JSON presenter
\* (convert_hierarchy_for_web) and answer an error.
C17_NotFoundIffUnresolved ==
    /\ last.op \in {"show_hierarchy", "show_project_hierarchy"}
       => /\ last.res.success <=> RootResolves
          /\ ~last.res.success
             => /\ last.res.error \in {"task_not_found", "project_not_found"}
                /\ last.res.hierarchy = NoHierarchy
          /\ last.res.success => last.res.hierarchy # NoHierarchy
    /\ last.op \in {"task_api", "project_api"}
       => /\ ~RootResolves => (last.web = NoWeb /\ last.status = 400 /\ ~last.res.success)
          /\ RootResolves => (last.web # NoWeb /\ last.status = 200 /\ last.res.success)

\* C17's case: the task handler was asked for an id that is no task; the
\* builder was called and answered not found.
C17_Witness ==
    /\ last.op = "task_api"
    /\ last.task = NumTasks + 1
    /\ last.res.error = "task_not_found"
    /\ last.web = NoWeb

\* C17's other case: the project handler was asked for a project that does
\* not exist.
C17_WitnessProject ==
    /\ last.op = "project_api"
    /\ last.task = 2
    /\ last.res.error = "project_not_found"
    /\ last.web = NoWeb

\* The tasks whose parent_id names a task that is not in the store.
Orphans(st) == {t \in TaskIds(st) : Truthy(st.parent[t]) /\ st.parent[t] \notin TaskIds(st)}

\* C18: when a task's parent_id names an id that is not in the store,
\* show_hierarchy on that task and show_project_hierarchy on its project both
\* succeed: the missing parent is skipped and the task's ancestor chain is empty.
C18_MissingParentSkipped ==
    /\ (last.op = "show_hierarchy" /\ last.task \in Orphans(store))
       => /\ last.res.success
          /\ last.res.hierarchy.parents = <<>>
          /\ last.res.hierarchy.main_task.id = last.task
    /\ (/\ last.op = "show_project_hierarchy"
        /\ last.task \in Projects
        /\ \E t \in Orphans(store) : store.project[t] = last.task)
       => /\ last.res.success
          /\ \A i \in 1..Len(last.res.hierarchy.main_tasks) :
                last.res.hierarchy.main_tasks[i].id \notin Orphans(store)

\* C18's case: show_hierarchy on a task whose parent is missing and which has
\* a child.
C18_Witness ==
    /\ last.op = "show_hierarchy" /\ last.res.success
    /\ last.task \in Orphans(store)
    /\ last.res.hierarchy.children # <<>>

\* C18's other case: show_project_hierarchy on a project with such a task and
\* a main task.
C18_WitnessProject ==
    /\ last.op = "show_project_hierarchy" /\ last.res.success
    /\ \E t \in Orphans(store) : store.project[t] = last.task
    /\ last.res.hierarchy.main_tasks # <<>>

\* ------------------------------------------------------------ claims on the JSON presenter
\* The tree below a list of nodes, reduced to ids: per node its id and the
\* same for its children, in list order.
RECURSIVE Shapes(_)
Shapes(nodes) ==
    [i \in 1..Len(nodes) |-> [id |-> nodes[i].id, children |-> Shapes(nodes[i].children)]]

\* The task trees of the hierarchy the builder returned, and of the document
\* the presenter made of it.
BuiltTrees == LastTrees

RenderedTrees ==
    IF last.web.type = "project" THEN last.web.root.children ELSE <<last.web.root>>

\* C19: the JSON document convert_hierarchy_for_web produces holds exactly the
\* task nodes of the hierarchy the builder returned, with the same
\* parent-child edges and the same order of children, for both hierarchy
\* types (the subtasks of the root task included).
C19_TreePreserved ==
    (last.op \in {"task_api", "project_api"} /\ last.status = 200)
    => Shapes(RenderedTrees) = Shapes(BuiltTrees)

\* C19 for the hierarchies of projects.
C19_ProjectTreePreserved ==
    (last.op = "project_api" /\ last.status = 200)
    => Shapes(RenderedTrees) = Shapes(BuiltTrees)

\* C19's case reached for a project: a main task with a subtask that has a
\* subtask was rendered.
C19_WitnessProject ==
    /\ last.op = "project_api" /\ last.status = 200
    /\ \E i \in 1..Len(last.web.root.children) :
        /\ last.web.root.children[i].children # <<>>
        /\ last.web.root.children[i].children[1].children # <<>>

\* The stage names and the priority levels of the nodes of a list and of the
\* nodes below them.
RECURSIVE StagesIn(_)
StagesIn(nodes) ==
    UNION {{nodes[i].stage} \cup StagesIn(nodes[i].children) : i \in 1..Len(nodes)}

RECURSIVE LevelsIn(_)
LevelsIn(nodes) ==
    UNION {{nodes[i].priority.level} \cup LevelsIn(nodes[i].children) : i \in 1..Len(nodes)}

\* seq lists the elements of S once each, in increasing rank.
ListsSortedStages(seq, S) ==
    /\ {seq[i] : i \in 1..Len(seq)} = S
    /\ \A i, j \in 1..Len(seq) : i < j => StageRank(seq[i]) < StageRank(seq[j])

ListsSortedLevels(seq, S) ==
    /\ {seq[i] : i \in 1..Len(seq)} = S
    /\ \A i, j \in 1..Len(seq) : i < j => seq[i] < seq[j]

\* C20: for every rendered hierarchy, of a task or of a project,
\* filter_data.stages is the duplicate-free sorted list of the stage names of
\* all task nodes of the tree, and filter_data.priorities the duplicate-free
\* sorted list of their priority levels.
C20_FilterData ==
    (last.op \in {"task_api", "project_api"} /\ last.status = 200)
    => /\ ListsSortedStages(last.web.filter_data.stages, StagesIn(RenderedTrees))
       /\ ListsSortedLevels(last.web.filter_data.priorities, LevelsIn(RenderedTrees))

\* C20 for the documents of task hierarchies.
C20_TaskRooted ==
    (last.op = "task_api" /\ last.status = 200)
    => /\ ListsSortedStages(last.web.filter_data.stages, StagesIn(RenderedTrees))
       /\ ListsSortedLevels(last.web.filter_data.priorities, LevelsIn(RenderedTrees))

\* What the project documents carry: no stage and no priority at all.
C20_ProjectFilterEmpty ==
    (last.op = "project_api" /\ last.status = 200)
    => /\ last.web.filter_data.stages = <<>>
       /\ last.web.filter_data.priorities = <<>>

\* ------------------------------------------------------------ text presenter
\* The printed text is a sequence of lines.  A line has a kind, an indent (the
\* sequence of the three-character units printed before it), a connector, the
\* id of the task it names, and for a priority line the stars and the label.
\* The strings are written in ASCII: "|  " is the vertical bar and two spaces,
\* "+--" the corner connector of a last sibling, "|--" the tee connector.
Bar == "|  "
Blank == "   "
LastConnector == "+--"
MidConnector == "|--"

Line(kind, indent, connector, id) ==
    [kind |-> kind, indent |-> indent, connector |-> connector, id |-> id,
     filled |-> 0, label |-> ""]

\* _convert_priority_to_stars whose last branch is priority == 3.
_convert_priority_to_stars_OnlyThree(priority_value) ==
    LET priority == IntOf(priority_value)
    IN  IF priority = NotAnInt THEN [filled |-> 0, label |-> priority_value]
        ELSE IF priority = 0 THEN [filled |-> 0, label |-> "Normal"]
        ELSE IF priority = 1 THEN [filled |-> 1, label |-> "High"]
        ELSE IF priority = 2 THEN [filled |-> 2, label |-> "Urgent"]
        ELSE IF priority = 3 THEN [filled |-> 3, label |-> "Critical"]
        ELSE [filled |-> 0, label |-> priority_value]

\* _convert_priority_to_stars(priority_value): the number of filled stars of
\* the three printed and the label in parentheses (the value itself where the
\* code prints it).
_convert_priority_to_stars(priority_value) ==
    LET priority == IntOf(priority_value)
    IN  IF priority = NotAnInt THEN [filled |-> 0, label |-> priority_value]
        ELSE IF priority = 0 THEN [filled |-> 0, label |-> "Normal"]
        ELSE IF priority = 1 THEN [filled |-> 1, label |-> "High"]
        ELSE IF priority = 2 THEN [filled |-> 2, label |-> "Urgent"]
        ELSE IF priority >= 3 THEN [filled |-> 3, label |-> "Critical"]
        ELSE [filled |-> 0, label |-> priority_value]

\* _print_task_details(task, indent) at verbosity 0, for the fields of the
\* model: the stage line unless the stage is 'Unknown' or 'No stage', and the
\* stars line unless the priority is '0'.
_print_task_details(task, indent) ==
    LET stage == IF task.stage_name \notin {"", "Unknown", "No stage"}
                 THEN <<Line("stage", indent, "", task.id)>> ELSE <<>>
        stars == IF task.priority \notin {"", "0"}
                 THEN LET priority_stars == _convert_priority_to_stars(task.priority)
                      IN  <<[Line("stars", indent, "", task.id)
                                EXCEPT !.filled = priority_stars.filled,
                                       !.label = priority_stars.label]>>
                 ELSE <<>>
    IN  stage \o stars

\* _print_children_recursive(children, indent); PrintChildrenLoop is its for
\* loop from the i-th child on.
RECURSIVE _print_children_recursive(_, _)
RECURSIVE PrintChildrenLoop(_, _, _)

\* PrintChildrenLoop that extends the indent by the bar for every child.
PrintChildrenLoop_AlwaysBar(children, indent, i) ==
    IF i > Len(children) THEN <<>>
    ELSE LET child == children[i]
             is_last == i = Len(children)
             current_indent == IF is_last THEN LastConnector ELSE MidConnector
             detail_indent == Append(indent, IF is_last THEN Blank ELSE Bar)
             next_indent == Append(indent, Bar)
         IN  <<Line("task", indent, current_indent, child.id)>>
             \o _print_task_details(child, detail_indent)
             \o (IF child.children # <<>>
                 THEN _print_children_recursive(child.children, next_indent) ELSE <<>>)
             \o PrintChildrenLoop(children, indent, i + 1)

PrintChildrenLoop(children, indent, i) ==
    IF i > Len(children) THEN <<>>
    ELSE LET child == children[i]
             is_last == i = Len(children)
             current_indent == IF is_last THEN LastConnector ELSE MidConnector
             detail_indent == Append(indent, IF is_last THEN Blank ELSE Bar)
             next_indent == Append(indent, IF is_last THEN Blank ELSE Bar)
         IN  <<Line("task", indent, current_indent, child.id)>>
             \o _print_task_details(child, detail_indent)
             \o (IF child.children # <<>>
                 THEN _print_children_recursive(child.children, next_indent) ELSE <<>>)
             \o PrintChildrenLoop(children, indent, i + 1)

_print_children_recursive(children, indent) == PrintChildrenLoop(children, indent, 1)

\* The loop of print_project_hierarchy over the main tasks, from the i-th on.
RECURSIVE PrintMainTasksLoop(_, _)
PrintMainTasksLoop(main_tasks, i) ==
    IF i > Len(main_tasks) THEN <<>>
    ELSE LET main_task == main_tasks[i]
             is_last_main == i = Len(main_tasks)
             main_prefix == IF is_last_main THEN LastConnector ELSE MidConnector
             indent == <<IF is_last_main THEN Blank ELSE Bar>>
             child_indent == <<IF is_last_main THEN Blank ELSE Bar>>
         IN  <<Line("task", <<>>, main_prefix, main_task.id)>>
             \o _print_task_details(main_task, indent)
             \o (IF main_task.children # <<>>
                 THEN _print_children_recursive(main_task.children, child_indent) ELSE <<>>)
             \o PrintMainTasksLoop(main_tasks, i + 1)

\* print_project_hierarchy(hierarchy) at verbosity 0: the project line, the
\* summary line, then the main tasks or the line that says there are none.
print_project_hierarchy(hierarchy) ==
    <<Line("project", <<>>, "", hierarchy.project.id),
      Line("summary", <<Bar>>, "", hierarchy.project.id)>>
    \o (IF hierarchy.main_tasks # <<>>
        THEN PrintMainTasksLoop(hierarchy.main_tasks, 1)
        ELSE <<Line("no_tasks", <<>>, LastConnector, None)>>)

\* print_hierarchy(hierarchy): the parent chain (the i-th parent indented by i
\* times two spaces), the main task, then the subtasks.
print_hierarchy(hierarchy) ==
    [i \in 1..Len(hierarchy.parents) |->
        Line("parent", [k \in 1..(i - 1) |-> "  "], LastConnector, hierarchy.parents[i].id)]
    \o <<Line("main", <<>>, LastConnector, hierarchy.main_task.id)>>
    \o (IF hierarchy.children # <<>>
        THEN _print_children_recursive(hierarchy.children, <<>>) ELSE <<>>)

\* The priority values handed to the presenter: the numbers as strings,
\* str(False) and a word.
PriorityValues == {ToString(n) : n \in -1..MaxPriority} \cup {"False", "high"}

\* The record of a finished call of the text presenter.
TextCall(op, id, max_depth, value, res, stars, lines) ==
    [op |-> op, task |-> id, max_depth |-> max_depth, value |-> value, res |-> res,
     stars |-> stars, lines |-> lines]

NoStars == [filled |-> 0, label |-> ""]

\* The hierarchy of a task is built and printed.
PrintHierarchy ==
    /\ last.op = "none"
    /\ \E task_id \in IdArgs, max_depth \in 0..MaxDepth :
        \E result \in {show_hierarchy(store, task_id, max_depth)} :
            last' = TextCall("print_hierarchy", task_id, max_depth, "", result, NoStars,
                             IF result.success THEN print_hierarchy(result.hierarchy)
                             ELSE <<>>)
    /\ UNCHANGED <<store, callers, run>>

\* The hierarchy of a project is built and printed.
PrintProjectHierarchy ==
    /\ last.op = "none"
    /\ \E project_id \in {1, 2}, max_depth \in 0..MaxDepth :
        \E result \in {show_project_hierarchy(store, project_id, max_depth)} :
            last' = TextCall("print_project_hierarchy", project_id, max_depth, "", result,
                             NoStars,
                             IF result.success THEN print_project_hierarchy(result.hierarchy)
                             ELSE <<>>)
    /\ UNCHANGED <<store, callers, run>>

\* _convert_priority_to_stars is called for a priority value.
ConvertPriorityToStars ==
    /\ last.op = "none"
    /\ \E priority_value \in PriorityValues :
        last' = TextCall("stars", None, 0, priority_value, NoHierarchy,
                         _convert_priority_to_stars(priority_value), <<>>)
    /\ UNCHANGED <<store, callers, run>>

NextText ==
    \/ PrintHierarchy
    \/ PrintProjectHierarchy
    \/ ConvertPriorityToStars
    \/ Return

\* The text presenter on the stores of the JSON presenter, where every
\* project contains also the project with no tasks.
SpecText == InitRender /\ [][NextText]_vars

\* ------------------------------------------------------------ claims on the text
Min(a, b) == IF a < b THEN a ELSE b

\* C21: for every integer priority p >= 0 the text presenter prints min(p, 3)
\* filled stars, never more than 3, with the label Normal for 0, High for 1,
\* Urgent for 2 and Critical for every p >= 3.
C21_ThreeStarScale ==
    last.op = "stars" /\ IntOf(last.value) # NotAnInt /\ IntOf(last.value) >= 0 =>
        LET p == IntOf(last.value)
        IN  /\ last.stars.filled = Min(p, 3)
            /\ last.stars.filled <= 3
            /\ last.stars.label = CASE p = 0 -> "Normal"
                                    [] p = 1 -> "High"
                                    [] p = 2 -> "Urgent"
                                    [] OTHER -> "Critical"

\* A priority above 3 was converted.
C21_Witness ==
    /\ last.op = "stars"
    /\ IntOf(last.value) # NotAnInt
    /\ IntOf(last.value) > 3
    /\ last.stars = [filled |-> 3, label |-> "Critical"]

\* The places of the nodes of a list of trees, in pre-order: a place is the
\* sequence of child positions that leads to the node.  PlacesFrom lists the
\* places of the i-th tree and of the trees after it.
RECURSIVE PlacesFrom(_, _, _)
PlacesFrom(nodes, prefix, i) ==
    IF i > Len(nodes) THEN <<>>
    ELSE <<Append(prefix, i)>>
         \o PlacesFrom(nodes[i].children, Append(prefix, i), 1)
         \o PlacesFrom(nodes, prefix, i + 1)

\* The siblings among which the node at a place stands.
RECURSIVE SiblingsAt(_, _)
SiblingsAt(nodes, place) ==
    IF Len(place) = 1 THEN nodes
    ELSE SiblingsAt(nodes[Head(place)].children, Tail(place))

IsLastSibling(nodes, place) == place[Len(place)] = Len(SiblingsAt(nodes, place))

\* The trees a printed hierarchy draws, and the lines that name their nodes.
PrintedTrees ==
    IF last.res.hierarchy.kind = "project" THEN last.res.hierarchy.main_tasks
    ELSE last.res.hierarchy.children

TaskLines == SelectSeq(last.lines, LAMBDA l : l.kind = "task")

Printed == last.op \in {"print_hierarchy", "print_project_hierarchy"} /\ last.res.success

\* C22: the lines that name the nodes come in pre-order (a node before its
\* subtree, siblings in list order); a line has the corner connector iff its
\* node is the last of its siblings, the tee connector otherwise; and its
\* indent holds, for each of its ancestors from the top down, three spaces if
\* that ancestor is a last sibling and the bar with two spaces otherwise.
C22_PreOrderConnectorsIndent ==
    Printed =>
        LET places == PlacesFrom(PrintedTrees, <<>>, 1)
        IN  /\ Len(TaskLines) = Len(places)
            /\ \A k \in 1..Len(places) :
                LET place == places[k]
                    line == TaskLines[k]
                IN  /\ line.id = SiblingsAt(PrintedTrees, place)[place[Len(place)]].id
                    /\ line.connector = LastConnector
                           <=> IsLastSibling(PrintedTrees, place)
                    /\ line.connector \in {LastConnector, MidConnector}
                    /\ line.indent =
                           [j \in 1..(Len(place) - 1) |->
                               IF IsLastSibling(PrintedTrees, SubSeq(place, 1, j))
                               THEN Blank ELSE Bar]

\* A project was printed in which a main task that is not the last one has a
\* child, and a task was printed whose only child has a child.
C22_Witness ==
    /\ Printed
    /\ \E k \in 1..Len(TaskLines) :
        /\ TaskLines[k].indent = <<Bar>>
        /\ TaskLines[k].connector = LastConnector
    /\ \E k \in 1..Len(TaskLines) : TaskLines[k].connector = MidConnector

C22_WitnessDeep ==
    /\ Printed
    /\ \E k \in 1..Len(TaskLines) : TaskLines[k].indent = <<Blank, Blank>>

\* ------------------------------------------------------------ the cycle check by itself
\* The record of a finished call of _would_create_circular_dependency.
CheckCall(subtask_id, new_parent_id, r) ==
    [op |-> "would_create_circular_dependency", task |-> subtask_id,
     parent |-> new_parent_id, r |-> r.r, lg |-> r.lg, pre |-> store]

\* A caller runs _would_create_circular_dependency to its end.
WouldCreateCircularDependency ==
    /\ last.op = "none"
    /\ \E subtask_id \in IdArgs, new_parent_id \in IdArgs :
        \E r \in {_would_create_circular_dependency(store, NoFaults, <<>>,
                                                    subtask_id, new_parent_id)} :
            last' = CheckCall(subtask_id, new_parent_id, r)
    /\ UNCHANGED <<store, callers, run>>

NextCheck ==
    \/ WouldCreateCircularDependency
    \/ Return

\* The cycle check on forests, its remote calls all succeeding.
SpecCheck == Init /\ [][NextCheck]_vars

\* C23: on a forest, _would_create_circular_dependency(s, p) returns true
\* exactly when s = p or s is a proper ancestor of p; it issues no write and
\* leaves the store as it was.
C23_TrueIffSelfOrAncestor ==
    last.op = "would_create_circular_dependency" =>
        /\ last.r <=> (last.task = last.parent \/ last.task \in Ancestors(last.pre, last.parent))
        /\ Writes(last.lg) = <<>>
        /\ store = last.pre

\* The check answered true for a task that is the parent of the parent of p.
C23_Witness ==
    /\ last.op = "would_create_circular_dependency"
    /\ last.r
    /\ last.parent \in Tasks
    /\ store.parent[last.parent] \in Tasks
    /\ store.parent[last.parent] # last.task
    /\ store.parent[store.parent[last.parent]] = last.task

\* The check answered false for two tasks of which the first is below the second.
C23_WitnessFalse ==
    /\ last.op = "would_create_circular_dependency"
    /\ ~last.r
    /\ last.task \in Tasks
    /\ last.parent \in Ancestors(store, last.task)

\* ------------------------------------------------------------ claims on the parent chain
\* The ids of the parent chain of the hierarchy a call of show_hierarchy built.
ChainIds == [i \in 1..Len(last.res.hierarchy.parents) |-> last.res.hierarchy.parents[i].id]

BuiltChain == last.op = "show_hierarchy" /\ last.res.success

\* C24: on a forest, the parent chain of the hierarchy of t is the sequence of
\* the proper ancestors of t, the parentless one first and the parent of t
\* last; it is empty iff t has no parent.
C24_ChainIsAncestorsTopFirst ==
    BuiltChain =>
        LET n == Len(ChainIds)
        IN  /\ \A i \in 1..n : ChainIds[i] = KthAncestor(store, last.task, n - i + 1)
            /\ {ChainIds[i] : i \in 1..n} = Ancestors(store, last.task)
            /\ n = Cardinality(Ancestors(store, last.task))
            /\ n > 0 => store.parent[ChainIds[1]] = 0
            /\ n = 0 <=> store.parent[last.task] = 0

\* The chain of a task two levels down was built.
C24_Witness ==
    /\ BuiltChain
    /\ Len(ChainIds) = 2
    /\ ChainIds[2] = store.parent[last.task]
    /\ ChainIds[1] = store.parent[store.parent[last.task]]

\* The chain of a task with no parent was built.
C24_WitnessEmpty ==
    /\ BuiltChain
    /\ store.parent[last.task] = 0
    /\ ChainIds = <<>>

\* C26: for every store, one with a cycle in its parent relation included,
\* the parent chain of the hierarchy of t lists each task id at most once and
\* does not contain t.
C26_ChainOnceAndNotItself ==
    BuiltChain =>
        /\ \A i, j \in 1..Len(ChainIds) : ChainIds[i] = ChainIds[j] => i = j
        /\ \A i \in 1..Len(ChainIds) : ChainIds[i] # last.task

\* What holds of the chain on every store: it does not contain t unless t is
\* on a cycle.
C26_NotItselfOffCycles ==
    BuiltChain /\ last.task \notin Ancestors(store, last.task) =>
        \A i \in 1..Len(ChainIds) : ChainIds[i] # last.task

\* The chain of a task on a cycle of two tasks was built.
C26_WitnessCycle ==
    /\ BuiltChain
    /\ store.parent[last.task] \in Tasks \ {last.task}
    /\ store.parent[store.parent[last.task]] = last.task

\* ------------------------------------------------------------ claims on the target project
NotFoundErrors == {"subtask_not_found", "parent_not_found", "project_not_found"}

UnresolvedProject == last.proj # None /\ last.proj \notin Projects

\* C27: a move or move_many whose target_project_id is not None and matches
\* no project fails with a not-found error and issues no write.
C27_UnresolvedProjectNotWritten ==
    last.op \in {"move", "move_many"} /\ UnresolvedProject =>
        /\ ~last.res.success
        /\ last.res.error \in NotFoundErrors
        /\ Writes(last.res.lg) = <<>>
        /\ store = last.pre

\* C27 for every target_project_id but 0 and False.
C27_ExceptFalsyProject ==
    last.op \in {"move", "move_many"} /\ UnresolvedProject /\ Truthy(last.proj) =>
        /\ ~last.res.success
        /\ last.res.error \in NotFoundErrors
        /\ Writes(last.res.lg) = <<>>
        /\ store = last.pre

\* A move that passed every other check was refused for its project.
C27_WitnessRefused ==
    /\ last.op = "move"
    /\ UnresolvedProject
    /\ last.res.error = "project_not_found"
    /\ last.task \in Tasks
    /\ last.parent \in Tasks \ ({last.task} \cup {t \in Tasks : last.task \in Ancestors(store, t)})

\* A move wrote a project_id that matches no project.
C27_WitnessWritten ==
    /\ last.op = "move"
    /\ UnresolvedProject
    /\ last.res.success
    /\ store.project[last.task] = last.proj
    /\ last.pre.project[last.task] # last.proj

\* ------------------------------------------------------------ /api/move-task
\* The values of a query parameter: '' stands for a parameter that is missing
\* or empty (params.get(name, [''])[0]).
IdParams == {"", "null", "undefined", "abc", "Root", "root", "0"} \cup {ToString(n) : n \in IdArgs}
ProjectParams == {"", "1", "2"}

\* What the handler answered: the status, the operation it called (none,
\* promote or move) with its arguments, and the result of that operation.
MoveAnswer(status, called, task, parent, proj, r) ==
    [status |-> status, called |-> called, task |-> task, parent |-> parent,
     proj |-> proj, r |-> r]

\* handle_move_task_api that takes every new_parent_id that is no number for 'root'.
handle_move_task_api_AnyWordIsRoot(st, task_id, new_parent_id, project_param) ==
    LET project_id == IF project_param = "" THEN None ELSE IntOf(project_param)
    IN  IF task_id \in {"", "null", "undefined"}
        THEN MoveAnswer(400, "none", None, None, None, Failure("task_id_required", st, <<>>))
        ELSE IF new_parent_id \in {"", "null", "undefined"}
        THEN MoveAnswer(400, "none", None, None, None, Failure("parent_id_required", st, <<>>))
        ELSE IF IntOf(task_id) = NotAnInt
        THEN MoveAnswer(400, "none", None, None, None, Failure("task_id_not_a_number", st, <<>>))
        ELSE IF IntOf(new_parent_id) = NotAnInt
        THEN LET result == promote_task(st, NoFaults, IntOf(task_id))
             IN  MoveAnswer(IF result.success THEN 200 ELSE 400, "promote",
                            IntOf(task_id), None, None, result)
        ELSE LET result == move_subtask(st, NoFaults, IntOf(task_id), IntOf(new_parent_id),
                                        project_id)
             IN  MoveAnswer(IF result.success THEN 200 ELSE 400, "move",
                            IntOf(task_id), IntOf(new_parent_id), project_id, result)

\* handle_move_task_api(query_string), the query string given by its three
\* parameters.  project_id goes to move_subtask as the string it is, and the
\* remote table compares ids with it as with its number.
handle_move_task_api(st, task_id, new_parent_id, project_param) ==
    LET project_id == IF project_param = "" THEN None ELSE IntOf(project_param)
    IN  IF task_id \in {"", "null", "undefined"}
        THEN MoveAnswer(400, "none", None, None, None, Failure("task_id_required", st, <<>>))
        ELSE IF new_parent_id \in {"", "null", "undefined"}
        THEN MoveAnswer(400, "none", None, None, None, Failure("parent_id_required", st, <<>>))
        ELSE IF IntOf(task_id) = NotAnInt
        THEN MoveAnswer(400, "none", None, None, None, Failure("task_id_not_a_number", st, <<>>))
        ELSE IF new_parent_id # "root" /\ IntOf(new_parent_id) = NotAnInt
        THEN MoveAnswer(400, "none", None, None, None,
                        Failure("parent_id_not_a_number", st, <<>>))
        ELSE IF new_parent_id = "root"
        THEN LET result == promote_task(st, NoFaults, IntOf(task_id))
             IN  MoveAnswer(IF result.success THEN 200 ELSE 400, "promote",
                            IntOf(task_id), None, None, result)
        ELSE LET result == move_subtask(st, NoFaults, IntOf(task_id), IntOf(new_parent_id),
                                        project_id)
             IN  MoveAnswer(IF result.success THEN 200 ELSE 400, "move",
                            IntOf(task_id), IntOf(new_parent_id), project_id, result)

\* The record of a finished request to /api/move-task.
MoveApiCall(task_id, new_parent_id, project_param, a) ==
    [op |-> "move_api", task_id |-> task_id, new_parent_id |-> new_parent_id,
     project_id |-> project_param, pre |-> store, status |-> a.status, called |-> a.called,
     task |-> a.task, parent |-> a.parent, proj |-> a.proj,
     res |-> [a.r EXCEPT !.store = NoStore]]

\* The server handles one request to /api/move-task.
HandleMoveTaskApi ==
    /\ last.op = "none"
    /\ \E task_id \in IdParams, new_parent_id \in IdParams, project_param \in ProjectParams :
        \E a \in {handle_move_task_api(store, task_id, new_parent_id, project_param)} :
            /\ store' = a.r.store
            /\ last' = MoveApiCall(task_id, new_parent_id, project_param, a)
    /\ UNCHANGED <<callers, run>>

NextMoveApi ==
    \/ HandleMoveTaskApi
    \/ Return

\* Requests to /api/move-task handled one at a time, on a forest.
SpecMoveApi == Init /\ [][NextMoveApi]_vars

\* The strings that are integers.
IntegerParams == {ToString(n) : n \in 0..(NumTasks + 1)}

\* C28: the endpoint calls promote exactly when new_parent_id is 'root' and
\* move otherwise; when task_id is missing or no integer, or new_parent_id is
\* missing or neither an integer nor 'root', it answers 400 and calls neither,
\* so nothing is written.
C28_MoveApiRouting ==
    last.op = "move_api" =>
        LET valid == /\ last.task_id \in IntegerParams
                     /\ last.new_parent_id \in IntegerParams \cup {"root"}
        IN  /\ valid /\ last.new_parent_id = "root" =>
                /\ last.called = "promote"
                /\ last.task = IntOf(last.task_id)
            /\ valid /\ last.new_parent_id # "root" =>
                /\ last.called = "move"
                /\ last.task = IntOf(last.task_id)
                /\ last.parent = IntOf(last.new_parent_id)
            /\ ~valid =>
                /\ last.status = 400
                /\ last.called = "none"
                /\ Writes(last.res.lg) = <<>>
                /\ store = last.pre

\* A request with new_parent_id 'root' promoted a subtask.
C28_Witness ==
    /\ last.op = "move_api"
    /\ last.new_parent_id = "root"
    /\ last.called = "promote"
    /\ last.status = 200
    /\ last.pre.parent[last.task] # 0
    /\ store.parent[last.task] = 0

\* A request with a number for new_parent_id moved a task.
C28_WitnessMove ==
    /\ last.op = "move_api"
    /\ last.called = "move"
    /\ last.status = 200
    /\ store.parent[last.task] = last.parent
    /\ store # last.pre

\* A request whose new_parent_id is a word other than 'root' was answered 400.
C28_WitnessRefused ==
    /\ last.op = "move_api"
    /\ last.task_id \in IntegerParams
    /\ last.new_parent_id \in {"abc", "Root"}
    /\ last.status = 400
    /\ last.called = "none"

\* ------------------------------------------------------------ the page: drag and drop
\* The page of the hierarchy tab, followed event by event in the variable run,
\* with the server behind it answering on the variable store.  Ids are the
\* strings the page reads from the DOM; "null" stands for JavaScript's null.
\* The number of drags the user starts.
MaxDrags == 2

\* The ids of the task nodes drawn in a list of nodes and below them.
RECURSIVE DrawnIds(_)
DrawnIds(nodes) ==
    UNION {{nodes[i].id} \cup DrawnIds(nodes[i].children) : i \in 1..Len(nodes)}

\* The ids of the task nodes drawn inside the node of task id.
RECURSIVE DrawnBelow(_, _)
DrawnBelow(nodes, id) ==
    UNION {IF nodes[i].id = id THEN DrawnIds(nodes[i].children)
           ELSE DrawnBelow(nodes[i].children, id) : i \in 1..Len(nodes)}

\* The task nodes that can be dragged: every task node but the root.
Draggable(hierarchy) ==
    IF hierarchy.type \in {"project", "task"} THEN DrawnIds(hierarchy.root.children) ELSE {}

\* The nodes something can be dropped on: the root node and the task nodes.
DropTargets(hierarchy) ==
    (IF hierarchy.type = "project" THEN {"project"} ELSE {ToString(hierarchy.root.id)})
        \cup {ToString(id) : id \in Draggable(hierarchy)}

\* No modal is shown: modalCallback is null.  An open modal holds what the
\* suspended handleDrop keeps in its local variables; dragged is the id that
\* was being dragged when the drop came.
NoModal == [open |-> FALSE, dragged |-> "null", newParentId |-> "null", targetTaskId |-> "null"]

\* The page after displayHierarchy(hierarchy).
Page(hierarchy) ==
    [op |-> "page", currentHierarchy |-> hierarchy, session |-> "none",
     draggedElement |-> "null", draggedTaskId |-> "null", modal |-> NoModal,
     requests |-> <<>>, responses |-> <<>>,
     sent |-> <<>>, confirmed |-> <<>>, answers |-> <<>>, drags |-> 0]

MoveRequest(task_id, new_parent_id, project_id) ==
    [kind |-> "move", task_id |-> task_id, new_parent_id |-> new_parent_id,
     project_id |-> project_id]

HierarchyRequest(type, id) == [kind |-> "hierarchy", type |-> type, id |-> id]

handleDragStart(c, id) ==
    [c EXCEPT !.draggedElement = ToString(id), !.draggedTaskId = ToString(id)]

handleDragEnd(c) ==
    [c EXCEPT !.draggedElement = "null", !.draggedTaskId = "null"]

\* isValidDropTarget(targetNode): not the dragged node and not inside it.
isValidDropTarget(c, target) ==
    /\ c.draggedElement # "null"
    /\ target # c.draggedElement
    /\ \A id \in DrawnBelow(c.currentHierarchy.root.children, IntOf(c.draggedElement)) :
        ToString(id) # target

\* handleDrop(e) up to its await: the modal is shown, or the drop is dropped.
handleDrop(c, target) ==
    IF c.draggedElement = "null" \/ target = c.draggedElement THEN c
    ELSE IF ~isValidDropTarget(c, target) THEN c
    ELSE LET targetType == IF target = "project" THEN "project" ELSE "task"
             targetTaskId == IF targetType = "task" THEN target ELSE "null"
             newParentId == IF targetType = "project" THEN "root" ELSE targetTaskId
         IN  IF c.draggedTaskId = "null" THEN c
             ELSE [c EXCEPT !.modal = [open |-> TRUE, dragged |-> c.draggedTaskId,
                                       newParentId |-> newParentId,
                                       targetTaskId |-> targetTaskId]]

\* performTaskMove(taskId, newParentId, targetTaskId) up to its fetch.
performTaskMove(c, taskId, newParentId) ==
    IF taskId \in {"null", "undefined", "unknown"} THEN c
    ELSE IF newParentId \in {"null", "undefined", "unknown"} THEN c
    ELSE LET project_id ==
                 IF newParentId = "root" /\ c.currentHierarchy.type = "project"
                 THEN ToString(c.currentHierarchy.root.id) ELSE ""
             request == MoveRequest(taskId, newParentId, project_id)
         IN  [c EXCEPT !.requests = Append(@, request), !.sent = Append(@, request)]

\* refreshCurrentHierarchy(): loadHierarchy(type, id) of what is displayed.
refreshCurrentHierarchy(c) ==
    IF c.currentHierarchy.type = "none" THEN c
    ELSE [c EXCEPT !.requests = Append(@, HierarchyRequest(c.currentHierarchy.type,
                                                           c.currentHierarchy.root.id))]

\* The then-handler of the fetch of performTaskMove.  With draggedElement null
\* the expression draggedElement.closest(...) throws, and the catch-handler
\* shows the error toast.
MoveAnswered(c, data) ==
    LET after == IF data.success
                 THEN IF c.draggedElement = "null" THEN c
                      ELSE refreshCurrentHierarchy(c)
                 ELSE c
    IN  [after EXCEPT !.answers =
            Append(@, [success |-> data.success, draggedElement |-> c.draggedElement,
                       displayed |-> HierarchyRequest(c.currentHierarchy.type,
                                                      c.currentHierarchy.root.id),
                       reloads |-> SubSeq(after.requests, Len(c.requests) + 1,
                                          Len(after.requests))])]

\* The user starts to drag a task node.
DragStart ==
    /\ run.session = "none"
    /\ ~run.modal.open
    /\ run.drags < MaxDrags
    /\ \E id \in Draggable(run.currentHierarchy) :
        run' = [handleDragStart(run, id) EXCEPT !.session = "dragging", !.drags = @ + 1]
    /\ UNCHANGED <<store, last, callers>>

\* The user drops what is dragged on a node.
Drop ==
    /\ run.session = "dragging"
    /\ \E target \in DropTargets(run.currentHierarchy) :
        run' = [handleDrop(run, target) EXCEPT !.session = "dropped"]
    /\ UNCHANGED <<store, last, callers>>

\* The browser ends the drag, after a drop or without one.
DragEnd ==
    /\ run.session \in {"dragging", "dropped"}
    /\ run' = [handleDragEnd(run) EXCEPT !.session = "none"]
    /\ UNCHANGED <<store, last, callers>>

\* The user confirms the modal: handleDrop goes on after its await, with the
\* draggedTaskId of now.
ConfirmModal ==
    /\ run.modal.open
    /\ run' = [performTaskMove(run, run.draggedTaskId, run.modal.newParentId)
                  EXCEPT !.modal = NoModal,
                         !.confirmed = Append(@, [task_id |-> run.modal.dragged,
                                                  new_parent_id |-> run.modal.newParentId])]
    /\ UNCHANGED <<store, last, callers>>

\* The user cancels the modal.
CloseModal ==
    /\ run.modal.open
    /\ run' = [run EXCEPT !.modal = NoModal]
    /\ UNCHANGED <<store, last, callers>>

\* The server handles the oldest request.
ServeMove ==
    /\ run.requests # <<>>
    /\ Head(run.requests).kind = "move"
    /\ \E a \in {handle_move_task_api(store, Head(run.requests).task_id,
                                      Head(run.requests).new_parent_id,
                                      Head(run.requests).project_id)} :
        /\ store' = a.r.store
        /\ run' = [run EXCEPT !.requests = Tail(@),
                              !.responses = Append(@, [kind |-> "move",
                                                       success |-> a.r.success,
                                                       hierarchy |-> NoWeb])]
    /\ UNCHANGED <<last, callers>>

ServeHierarchy ==
    /\ run.requests # <<>>
    /\ Head(run.requests).kind = "hierarchy"
    /\ \E a \in {IF Head(run.requests).type = "project"
                 THEN handle_project_hierarchy_api(store, Head(run.requests).id)
                 ELSE handle_task_hierarchy_api(store, Head(run.requests).id)} :
        run' = [run EXCEPT !.requests = Tail(@),
                           !.responses = Append(@, [kind |-> "hierarchy",
                                                    success |-> a.status = 200,
                                                    hierarchy |-> a.web])]
    /\ UNCHANGED <<store, last, callers>>

\* The page gets the answer to its move request.
ReceiveMove ==
    /\ run.responses # <<>>
    /\ Head(run.responses).kind = "move"
    /\ run' = [MoveAnswered(run, Head(run.responses)) EXCEPT !.responses = Tail(@)]
    /\ UNCHANGED <<store, last, callers>>

\* The page gets the hierarchy it asked for and displays it.
ReceiveHierarchy ==
    /\ run.responses # <<>>
    /\ Head(run.responses).kind = "hierarchy"
    /\ run' = [run EXCEPT !.responses = Tail(@),
                          !.currentHierarchy = IF Head(run.responses).success
                                               THEN Head(run.responses).hierarchy ELSE @]
    /\ UNCHANGED <<store, last, callers>>

NextPage ==
    \/ DragStart
    \/ Drop
    \/ DragEnd
    \/ ConfirmModal
    \/ CloseModal
    \/ ServeMove
    \/ ServeHierarchy
    \/ ReceiveMove
    \/ ReceiveHierarchy

\* Stores behind the page: forests of tasks of the project.
PageStores == {st \in RenderStores : \A t \in Tasks : st.stage[t] = "" /\ st.priority[t] = "unset"}

\* The page displays the hierarchy of the project.
InitPage ==
    /\ store \in PageStores
    /\ last = NoCall
    /\ callers = [c \in Callers |-> Idle]
    /\ run = Page(handle_project_hierarchy_api(store, 1).web)

SpecPage == InitPage /\ [][NextPage]_vars

\* ------------------------------------------------------------ claims on the page
\* C29: for every drop on a valid target that the user confirmed, the page
\* sent exactly one /api/move-task request, with the dragged task's id as
\* task_id and the target's id, or 'root', as new_parent_id; whether dragend
\* came before the confirmation or not.
C29_OneRequestPerConfirmedDrop ==
    run.op = "page" =>
        /\ Len(run.sent) = Len(run.confirmed)
        /\ \A i \in 1..Len(run.sent) :
            /\ run.sent[i].task_id = run.confirmed[i].task_id
            /\ run.sent[i].new_parent_id = run.confirmed[i].new_parent_id

\* What holds of the requests: there is at most one for each confirmed drop.
C29_AtMostOneRequest ==
    run.op = "page" => Len(run.sent) <= Len(run.confirmed)

\* A drop was confirmed after dragend, and no request was sent.
C29_WitnessLost ==
    /\ run.op = "page"
    /\ run.confirmed # <<>>
    /\ run.sent = <<>>

\* A drop was confirmed before dragend, and its request was sent.
C29_WitnessSent ==
    /\ run.op = "page"
    /\ Len(run.confirmed) = 1
    /\ Len(run.sent) = 1
    /\ run.sent[1].task_id = run.confirmed[1].task_id
    /\ run.sent[1].new_parent_id = run.confirmed[1].new_parent_id

C25_RefreshUnlessDragEnded ==
    run.op = "page" =>
        \A i \in 1..Len(run.answers) :
            LET answer == run.answers[i]
            IN  /\ answer.success /\ answer.draggedElement # "null"
                    => answer.reloads = <<answer.displayed>>
                /\ ~answer.success => answer.reloads = <<>>

\* A success answer came after dragend and no reload followed.
C25_WitnessNoReload ==
    /\ run.op = "page"
    /\ \E i \in 1..Len(run.answers) :
        /\ run.answers[i].success
        /\ run.answers[i].reloads = <<>>

\* A success answer was followed by the reload, and a failure answer by none.
C25_WitnessReload ==
    /\ run.op = "page"
    /\ \E i \in 1..Len(run.answers) :
        /\ run.answers[i].success
        /\ run.answers[i].reloads # <<>>
    /\ \E i \in 1..Len(run.answers) : ~run.answers[i].success

\* ------------------------------------------------------------ background searches
\* /api/search and its background thread, followed step by step in the
\* variable run.  The server handles one request at a time; the search
\* threads run beside it.  The number of searches requested:
MaxSearches == 2

\* The search ids (uuid4 values, all different).
SearchIds == 1..MaxSearches

Outcomes == {"completed", "timeout", "error"}

\* _active_searches is entries: the status of each id, "absent" without an
\* entry.  threads is where each search thread stands, clients what the page
\* that asked for the search does, timers the cleanup timers that are set.
\* missed says that the thread found no entry to update.
NoSearches ==
    [op |-> "search", handler |-> [pc |-> "idle", search_id |-> 0],
     entries |-> [id \in SearchIds |-> "absent"],
     threads |-> [id \in SearchIds |-> "none"],
     clients |-> [id \in SearchIds |-> "none"],
     timers |-> [id \in SearchIds |-> FALSE],
     missed |-> [id \in SearchIds |-> FALSE]]

\* handle_search_api up to search_thread.start(): the thread is running.
StartSearchThread ==
    /\ run.handler.pc = "idle"
    /\ \E id \in SearchIds :
        /\ run.threads[id] = "none"
        /\ \A other \in SearchIds : other < id => run.threads[other] # "none"
        /\ run' = [run EXCEPT !.handler = [pc |-> "started", search_id |-> id],
                              !.threads[id] = "running"]
    /\ UNCHANGED <<store, last, callers>>

\* handle_search_api: the entry is stored with status 'running', under the lock.
RegisterSearch ==
    /\ run.handler.pc = "started"
    /\ run' = [run EXCEPT !.handler.pc = "registered",
                          !.entries[run.handler.search_id] = "running"]
    /\ UNCHANGED <<store, last, callers>>

\* handle_search_api: the search id is sent; the page starts to poll.
ReturnSearchId ==
    /\ run.handler.pc = "registered"
    /\ run' = [run EXCEPT !.handler = [pc |-> "idle", search_id |-> 0],
                          !.clients[run.handler.search_id] = "polling"]
    /\ UNCHANGED <<store, last, callers>>

\* _execute_search_process reaches its end: the subprocess has ended, has
\* timed out, or an exception was raised; under the lock the entry is
\* updated if there is one.
FinishSearch ==
    /\ \E id \in SearchIds, outcome \in Outcomes :
        /\ run.threads[id] = "running"
        /\ run' = [run EXCEPT !.threads[id] = "done",
                              !.entries[id] = IF @ # "absent" THEN outcome ELSE @,
                              !.missed[id] = (run.entries[id] = "absent")]
    /\ UNCHANGED <<store, last, callers>>

\* handle_search_status_api for the poll of a page, and what pollSearchResults
\* does with the answer: it polls again only on 'running'.
PollSearch ==
    /\ run.handler.pc = "idle"
    /\ \E id \in SearchIds :
        /\ run.clients[id] = "polling"
        /\ run' = [run EXCEPT !.clients[id] = IF run.entries[id] = "running"
                                              THEN "polling" ELSE "stopped",
                              !.timers[id] = @ \/ run.entries[id] = "completed"]
    /\ UNCHANGED <<store, last, callers>>

\* The cleanup timer of a completed search fires.
CleanUpSearch ==
    /\ \E id \in SearchIds :
        /\ run.timers[id]
        /\ run' = [run EXCEPT !.timers[id] = FALSE, !.entries[id] = "absent"]
    /\ UNCHANGED <<store, last, callers>>

NextSearch ==
    \/ StartSearchThread
    \/ RegisterSearch
    \/ ReturnSearchId
    \/ FinishSearch
    \/ PollSearch
    \/ CleanUpSearch

InitSearch ==
    /\ store = NoStore
    /\ last = NoCall
    /\ callers = [c \in Callers |-> Idle]
    /\ run = NoSearches

SpecSearch == InitSearch /\ [][NextSearch]_vars

\* The handler goes on to its end, every thread reaches its end (the
\* subprocess is run with a timeout), the page polls on and timers fire.
SpecSearchLive ==
    /\ SpecSearch
    /\ WF_vars(RegisterSearch)
    /\ WF_vars(ReturnSearchId)
    /\ WF_vars(FinishSearch)
    /\ WF_vars(PollSearch)
    /\ WF_vars(CleanUpSearch)

\* A search id was returned to the page, which polls for its status.
Polling(id) == run.op = "search" /\ run.clients[id] = "polling"

\* C30: for every search whose id was returned, under every interleaving of
\* its thread with the handler, its entry eventually has a status other
\* than 'running'.
C30_EntryLeavesRunning ==
    \A id \in SearchIds : Polling(id) ~> (run.entries[id] \in Outcomes)

\* The same for the page: it eventually stops polling.
C30_PollingStops ==
    \A id \in SearchIds : Polling(id) ~> (run.clients[id] = "stopped")

\* What holds of the entries: when the thread is done and the entry still says
\* 'running', the thread came to its update before the entry was stored.
C30_StuckOnlyAfterMissedUpdate ==
    run.op = "search" =>
        \A id \in SearchIds :
            run.threads[id] = "done" /\ run.entries[id] = "running" => run.missed[id]

\* The thread ended before the entry was stored: the entry says 'running'
\* and nothing is left that changes it.
C30_WitnessStuck ==
    /\ run.op = "search"
    /\ \E id \in SearchIds :
        /\ run.threads[id] = "done"
        /\ run.entries[id] = "running"
        /\ run.clients[id] = "polling"

\* The thread ended after the entry was stored, and the page has stopped.
C30_WitnessDone ==
    /\ run.op = "search"
    /\ \E id \in SearchIds :
        /\ run.threads[id] = "done"
        /\ ~run.missed[id]
        /\ run.clients[id] = "stopped"

\* ------------------------------------------------------------ claims on the search table
\* The page has polled the entry of a search in a terminal status.
PolledTerminal(id) == run.op = "search" /\ run.clients[id] = "stopped"

\* C31: every entry of the table of active searches is eventually removed
\* after a page has polled it in a terminal status (completed, error or
\* timeout).
C31_RemovedAfterTerminalPoll ==
    \A id \in SearchIds : PolledTerminal(id) ~> (run.entries[id] = "absent")

\* The part of C31 on removal that holds: an entry polled as completed is
\* eventually removed.
C31_CompletedIsRemoved ==
    \A id \in SearchIds :
        (PolledTerminal(id) /\ run.entries[id] = "completed") ~> (run.entries[id] = "absent")

\* The other part of C31, which holds: no step removes an entry whose status
\* is 'running'.
C31_NeverRemovedWhileRunning ==
    [][\A id \in SearchIds :
          run.op = "search" /\ run.entries[id] = "running" => run'.entries[id] # "absent"]_vars

\* An entry was polled with status error or timeout, and no timer is set.
C31_WitnessKept ==
    /\ run.op = "search"
    /\ \E id \in SearchIds :
        /\ run.clients[id] = "stopped"
        /\ run.entries[id] \in {"error", "timeout"}
        /\ ~run.timers[id]

\* An entry polled as completed was removed.
C31_WitnessRemoved ==
    /\ run.op = "search"
    /\ \E id \in SearchIds :
        /\ run.clients[id] = "stopped"
        /\ run.threads[id] = "done"
        /\ run.entries[id] = "absent"

\* ------------------------------------------------------------ claims on the project tree
\* The number of nodes in a list of nodes and below them.
RECURSIVE CountNodes(_)
SumTo(f, n) == LET RECURSIVE S(_)
                   S(k) == IF k = 0 THEN 0 ELSE f[k] + S(k - 1)
               IN  S(n)

CountNodes(nodes) ==
    SumTo([i \in 1..Len(nodes) |-> 1 + CountNodes(nodes[i].children)], Len(nodes))

\* The deepest nesting level in the store: the largest number of proper
\* ancestors a task has.
DeepestLevel(st) ==
    LET levels == {Cardinality(Ancestors(st, t)) : t \in TaskIds(st)}
    IN  CHOOSE n \in levels : \A m \in levels : m <= n

ProjectTasks(st, project_id) == {t \in TaskIds(st) : st.project[t] = project_id}

BuiltWholeProject ==
    /\ last.op = "show_project_hierarchy"
    /\ last.res.success
    /\ last.max_depth >= DeepestLevel(store)

\* What C32 says of a built project hierarchy.
TreeIsProject ==
    LET hierarchy == last.res.hierarchy
    IN  /\ DrawnIds(hierarchy.main_tasks) = ProjectTasks(store, last.task)
        /\ CountNodes(hierarchy.main_tasks) = hierarchy.total_tasks
        /\ CountNodes(hierarchy.main_tasks) - Len(hierarchy.main_tasks)
               = hierarchy.total_tasks - hierarchy.main_task_count

\* C32: in a project hierarchy built with max_depth at least the deepest
\* nesting level of the store, the ids in the tree are the tasks whose
\* project_id is the project; the tree has total_tasks nodes, of which
\* total_tasks - main_task_count are not main tasks.
C32_TreeIsProjectTasks == BuiltWholeProject => TreeIsProject

\* The tasks of every tree lie in one project: the parent relation is a
\* forest, and a task with a parent has the project_id of its parent.
ProjectsFollowParents(st) ==
    /\ \A t \in TaskIds(st) : st.parent[t] \in {0} \cup TaskIds(st)
    /\ IsForest([parent |-> st.parent, project |-> st.project])
    /\ \A t \in TaskIds(st) : st.parent[t] # 0 => st.project[t] = st.project[st.parent[t]]

\* What holds of the tree: C32 on the stores where tasks have the project of
\* their parents.
C32_WhereProjectsFollowParents ==
    BuiltWholeProject /\ ProjectsFollowParents(store) => TreeIsProject

\* A project of three tasks on three levels was built whole.
C32_WitnessWhole ==
    /\ BuiltWholeProject
    /\ ProjectsFollowParents(store)
    /\ DeepestLevel(store) = 2
    /\ last.res.hierarchy.total_tasks = 3

\* A tree shows a task that is not of the project.
C32_WitnessForeignChild ==
    /\ BuiltWholeProject
    /\ IsForest([parent |-> store.parent, project |-> store.project])
    /\ \E id \in DrawnIds(last.res.hierarchy.main_tasks) : store.project[id] # last.task

\* ------------------------------------------------------- hierarchy filters
\* The filter bar of the hierarchy page: one toggle per stage the document
\* offers, a minimum-priority slider, and the class 'filtered-hidden' on the
\* task nodes of the drawn tree.  localStorage keeps the last filter state of
\* the hierarchy; the model follows the page of one hierarchy.

\* <input type="range" id="prioritySlider" min="0" max="3">
SliderMax == 3

\* The task nodes renderTreeNode draws for nodes and below, in document order:
\* data-task-id, data-stage, data-priority, and the ids of the task nodes
\* nested inside the node.
RECURSIVE TaskNodes(_)
TaskNodes(nodes) ==
    IF nodes = <<>> THEN <<>>
    ELSE LET node == Head(nodes)
         IN  <<[id |-> node.id,
                stage |-> IF node.stage = "" THEN "No Stage" ELSE node.stage,
                priority |-> node.priority.level,
                below |-> DrawnIds(node.children)]>>
             \o TaskNodes(node.children) \o TaskNodes(Tail(nodes))

\* renderTreeNode(hierarchy.root, 0, true): the root of a project document is
\* a node of type 'project', the root of a task document a task node.
renderTreeNode(hierarchy) ==
    IF hierarchy.root.type = "task" THEN TaskNodes(<<hierarchy.root>>)
    ELSE TaskNodes(hierarchy.root.children)

\* updateParentVisibility(): the nodes are visited in document order; a hidden
\* node with a task node inside it that is not hidden loses 'filtered-hidden'.
RECURSIVE ParentVisibilityLoop(_, _, _)
ParentVisibilityLoop(nodes, i, hidden) ==
    IF i > Len(nodes) THEN hidden
    ELSE LET node == nodes[i]
             hasVisibleChildren == node.below \ hidden # {}
             isVisibleItself == node.id \notin hidden
         IN  ParentVisibilityLoop(nodes, i + 1,
                 IF ~isVisibleItself /\ hasVisibleChildren
                 THEN hidden \ {node.id} ELSE hidden)

updateParentVisibility(nodes, hidden) == ParentVisibilityLoop(nodes, 1, hidden)

applyFilters_StageOnly(nodes, activeStages, minPriority) ==
    updateParentVisibility(nodes,
        {nodes[i].id : i \in {j \in 1..Len(nodes) : nodes[j].stage \notin activeStages}})

\* applyFilters(): the ids of the task nodes that carry 'filtered-hidden'
\* afterwards.
applyFilters(nodes, activeStages, minPriority) ==
    LET stageMatch(node) == node.stage \in activeStages
        priorityMatch(node) == node.priority >= minPriority
    IN  updateParentVisibility(nodes,
            {nodes[i].id : i \in {j \in 1..Len(nodes) :
                                     ~(stageMatch(nodes[j]) /\ priorityMatch(nodes[j]))}})

NoSaved == [stages |-> {}, priority |-> None]

\* The page before a hierarchy is displayed.
NoFilters ==
    [op |-> "filters", currentHierarchy |-> NoWeb, key |-> <<"none", None>>,
     toggles |-> <<>>, active |-> {}, slider |-> 0, nodes |-> <<>>, hidden |-> {},
     saved |-> NoSaved, applied |-> FALSE]

Range(seq) == {seq[i] : i \in 1..Len(seq)}

\* saveFilterState()
saveFilterState(page) ==
    [page EXCEPT !.saved = [stages |-> page.active, priority |-> page.slider]]

\* displayHierarchy(hierarchy): setupHierarchyFilters makes one active toggle
\* per offered stage and sets the slider to 0, the tree is drawn anew, and
\* applySavedFilters restores the saved state of the hierarchy, if there is
\* one, and applies the filters.
displayHierarchy(page, key, hierarchy) ==
    LET toggles == hierarchy.filter_data.stages
        nodes == renderTreeNode(hierarchy)
        drawn == [page EXCEPT !.currentHierarchy = hierarchy, !.key = key,
                              !.toggles = toggles, !.active = Range(toggles),
                              !.slider = 0, !.nodes = nodes, !.hidden = {},
                              !.applied = FALSE]
    IN  IF page.saved = NoSaved THEN drawn
        ELSE LET active == Range(toggles) \cap page.saved.stages
             IN  [drawn EXCEPT !.active = active, !.slider = page.saved.priority,
                               !.hidden = applyFilters(nodes, active, page.saved.priority),
                               !.applied = TRUE]

\* A hierarchy is loaded and displayed: the project's, or a task's.
DisplayHierarchy(kind, id) ==
    /\ run.op = "filters"
    /\ run.key \in {<<"none", None>>, <<kind, id>>}
    /\ \E answer \in {IF kind = "project" THEN handle_project_hierarchy_api(store, id)
                      ELSE handle_task_hierarchy_api(store, id)} :
          /\ answer.status = 200
          /\ run' = displayHierarchy(run, <<kind, id>>, answer.web)
    /\ UNCHANGED <<store, last, callers>>

\* toggleStageFilter(stage, toggleElement)
ToggleStageFilter(stage) ==
    /\ run.op = "filters"
    /\ stage \in Range(run.toggles)
    /\ \E active \in {IF stage \in run.active THEN run.active \ {stage}
                      ELSE run.active \cup {stage}} :
          run' = saveFilterState([run EXCEPT !.active = active,
                     !.hidden = applyFilters(run.nodes, active, run.slider),
                     !.applied = TRUE])
    /\ UNCHANGED <<store, last, callers>>

\* toggleAllStages(show)
ToggleAllStages(show) ==
    /\ run.op = "filters"
    /\ run.currentHierarchy # NoWeb
    /\ \E active \in {IF show THEN Range(run.toggles) ELSE {}} :
          run' = saveFilterState([run EXCEPT !.active = active,
                     !.hidden = applyFilters(run.nodes, active, run.slider),
                     !.applied = TRUE])
    /\ UNCHANGED <<store, last, callers>>

\* updatePriorityFilter(), after the slider was set to level
UpdatePriorityFilter(level) ==
    /\ run.op = "filters"
    /\ run.currentHierarchy # NoWeb
    /\ run' = saveFilterState([run EXCEPT !.slider = level,
                  !.hidden = applyFilters(run.nodes, run.active, level),
                  !.applied = TRUE])
    /\ UNCHANGED <<store, last, callers>>

NextFilter ==
    \/ \E id \in Projects : DisplayHierarchy("project", id)
    \/ \E id \in Tasks : DisplayHierarchy("task", id)
    \/ \E stage \in {"Done", "No Stage", "Waiting"} : ToggleStageFilter(stage)
    \/ \E show \in BOOLEAN : ToggleAllStages(show)
    \/ \E level \in 0..SliderMax : UpdatePriorityFilter(level)

InitFilter ==
    /\ store \in RenderStores
    /\ last = NoCall
    /\ callers = [c \in Callers |-> Idle]
    /\ run = NoFilters

SpecFilter == InitFilter /\ [][NextFilter]_vars

\* The filters were applied to the displayed tree.
FiltersApplied == run.op = "filters" /\ run.currentHierarchy # NoWeb /\ run.applied

\* C33: after a hierarchy of either type is displayed, applying the filters
\* with every offered stage toggle active and minimum priority 0 hides no task
\* node of the tree.
C33_AllActiveHidesNothing ==
    (FiltersApplied /\ run.active = Range(run.toggles) /\ run.slider = 0)
    => run.hidden = {}

\* C33 for the hierarchy of a task.
C33_TaskHierarchy ==
    (FiltersApplied /\ run.key[1] = "task" /\ run.active = Range(run.toggles)
     /\ run.slider = 0)
    => run.hidden = {}

\* A project's tree with no toggle offered and every task node hidden.
C33_WitnessAllHidden ==
    /\ FiltersApplied /\ run.key[1] = "project" /\ run.toggles = <<>> /\ run.slider = 0
    /\ Len(run.nodes) = NumTasks
    /\ run.hidden = DrawnIds(run.currentHierarchy.root.children)

C33_WitnessTaskShown ==
    /\ FiltersApplied /\ run.key[1] = "task" /\ run.active = Range(run.toggles)
    /\ run.slider = 0 /\ Len(run.nodes) >= 1 /\ run.hidden = {}

\* The node's own stage is among the active stages and its priority level is
\* at least the selected minimum.
OwnMatch(node) == node.stage \in run.active /\ node.priority >= run.slider

C34_WitnessShown ==
    /\ FiltersApplied /\ run.slider > 0
    /\ \E i \in 1..Len(run.nodes) : run.nodes[i].id \notin run.hidden

\* A node shown for a node inside it: reached under SpecFilterAny only, since
\* the page of a project offers no toggle and the tree of a task has no child.
C34_ShownForDescendant ==
    /\ FiltersApplied
    /\ \E i \in 1..Len(run.nodes) :
          /\ run.nodes[i].id \notin run.hidden /\ ~OwnMatch(run.nodes[i])

\* applyFilters as a function of its inputs: the tree of a displayed
\* hierarchy, any set of active stages and any minimum priority (the toggles
\* the page would hold if filter_data listed the stages of the tree).
ApplyFiltersAny(kind, id, activeStages, minPriority) ==
    /\ run.op = "filters"
    /\ run.currentHierarchy = NoWeb
    /\ \E answer \in {IF kind = "project" THEN handle_project_hierarchy_api(store, id)
                      ELSE handle_task_hierarchy_api(store, id)} :
          /\ answer.status = 200
          /\ \E nodes \in {renderTreeNode(answer.web)} :
                run' = [NoFilters EXCEPT !.currentHierarchy = answer.web,
                            !.key = <<kind, id>>, !.nodes = nodes,
                            !.toggles = SortedStages(activeStages),
                            !.active = activeStages, !.slider = minPriority,
                            !.hidden = applyFilters(nodes, activeStages, minPriority),
                            !.applied = TRUE]
    /\ UNCHANGED <<store, last, callers>>

NextFilterAny ==
    \E kind \in {"project", "task"}, id \in Tasks,
       activeStages \in SUBSET {"Done", "No Stage", "Waiting"},
       minPriority \in 0..SliderMax :
        /\ kind = "project" => id \in Projects
        /\ ApplyFiltersAny(kind, id, activeStages, minPriority)

SpecFilterAny == InitFilter /\ [][NextFilterAny]_vars

\* ------------------------------------------------------ a session of calls
\* One caller makes up to MaxCalls calls of move_subtask and promote_task, one
\* after the other; run keeps the record of each finished call, the store it
\* started from included.
MaxCalls == 2

NoSession == [op |-> "session", calls |-> <<>>]

SessionMove ==
    /\ run.op = "session"
    /\ Len(run.calls) < MaxCalls
    /\ \E s \in IdArgs, p \in IdArgs, proj \in ProjArgs :
        \E r \in {move_subtask(store, NoFaults, s, p, proj)} :
            /\ store' = r.store
            /\ run' = [run EXCEPT !.calls = Append(@, Call("move", s, p, proj, <<>>, NoFaults, r))]
    /\ UNCHANGED <<last, callers>>

SessionPromote ==
    /\ run.op = "session"
    /\ Len(run.calls) < MaxCalls
    /\ \E t \in IdArgs :
        \E r \in {promote_task(store, NoFaults, t)} :
            /\ store' = r.store
            /\ run' = [run EXCEPT !.calls = Append(@, Call("promote", t, None, None, <<>>, NoFaults, r))]
    /\ UNCHANGED <<last, callers>>

NextSession == SessionMove \/ SessionPromote

InitSession ==
    /\ store \in ForestStores
    /\ last = NoCall
    /\ callers = [c \in Callers |-> Idle]
    /\ run = NoSession

SpecSession == InitSession /\ [][NextSession]_vars

\* The i-th call of the session is move(X, P) with no target project, for a
\* task X without parent and an existing task P that is neither X nor a
\* descendant of X.
MoveOfMainTask(i) ==
    /\ run.op = "session" /\ i <= Len(run.calls)
    /\ LET call == run.calls[i]
       IN  /\ call.op = "move" /\ call.proj = None
           /\ call.task \in TaskIds(call.pre) /\ call.parent \in TaskIds(call.pre)
           /\ call.pre.parent[call.task] = 0
           /\ call.parent # call.task
           /\ call.task \notin Ancestors(call.pre, call.parent)

\* The store the i-th call of the session left: the one the next call
\* started from, or the present one.
StoreAfter(i) == IF i < Len(run.calls) THEN run.calls[i + 1].pre ELSE store

\* C35: for a parentless task X and an existing task P that is neither X nor
\* a descendant of X, move(X, P) with no target project followed by
\* promote(X) both succeed and leave the store equal to its state before the
\* move.
C35_MoveThenPromoteRestores ==
    \A i \in 1..MaxCalls :
        MoveOfMainTask(i)
        => /\ run.calls[i].res.success
           /\ (i < Len(run.calls) /\ run.calls[i + 1].op = "promote"
               /\ run.calls[i + 1].task = run.calls[i].task)
              => /\ run.calls[i + 1].res.success
                 /\ run.calls[i + 1].pre.parent[run.calls[i].task] = run.calls[i].parent
                 /\ StoreAfter(i + 1) = run.calls[i].pre

\* A task of the project was moved below another task and promoted again.
C35_Witness ==
    /\ MoveOfMainTask(1) /\ Len(run.calls) = 2
    /\ run.calls[2].op = "promote" /\ run.calls[2].task = run.calls[1].task
    /\ run.calls[1].res.success /\ run.calls[2].res.success
    /\ run.calls[1].pre.project[run.calls[1].task] = 1
    /\ run.calls[2].pre # run.calls[1].pre
    /\ store = run.calls[1].pre

\* ---------------------------------------------- stars of the two presenters
\* The filled stars renderTreeNode draws for a JSON node: priority.stars
\* times, and only for a level above 0.
DrawnStars(priority) == IF priority.level > 0 THEN priority.stars ELSE 0

\* C36: for every priority value the star count the JSON node carries
\* (priority.stars of normalize_priority) equals the number of filled stars
\* the text presenter prints for the same priority: 0, 1, 2, 3 for the levels
\* 0, 1, 2, >= 3.
C36_SameStarsInBothPresenters ==
    last.op = "stars"
    => normalize_priority(last.value).stars = last.stars.filled

\* What the code keeps: the JSON node carries one star more than the text
\* presenter fills.
C36_OneStarMore ==
    last.op = "stars"
    => normalize_priority(last.value).stars = last.stars.filled + 1

\* Priority 3: three filled stars in the text, four in the web tree.
C36_WitnessCritical ==
    /\ last.op = "stars" /\ last.value = "3"
    /\ last.stars.filled = 3
    /\ DrawnStars(normalize_priority(last.value)) = 4
====
